---- MODULE Spec2Model ----
(***************************************************************************)
(* Model of the episode processing pipeline of the manosphere-report       *)
(* repository: the durable workflow EpisodeProcessingWorkflow.run          *)
(* (src/src/workflows/episode-processing.ts) and the admin server          *)
(* functions processEpisode, cancelAllJobs and resetEpisode                *)
(* (src/src/lib/server-fns.ts), over the record store (D1), the blob store *)
(* (R2) and the workflow engine.                                           *)
(*                                                                         *)
(* Every await of the source is an interleaving point: a handler is a      *)
(* chain of actions, one per awaited external effect.                      *)
(***************************************************************************)
EXTENDS Integers, Sequences, FiniteSets, TLC

\* ------------------------------------------------------------------------
\* Bounds of the model (not program constants)
\* ------------------------------------------------------------------------
MaxInstances == 2     \* workflow instances created over a behaviour
RunFaults == 4        \* failing external calls met by one run
RunRestarts == 1      \* host restarts (replays of run()) of one run
CtlFaults == 1        \* failing abort calls met by the control plane
CtlAdminCalls == 1    \* cancelAllJobs + resetEpisode calls over a behaviour
MaxPlanChunks == 3    \* largest chunk count explored by the chunk planner
OutFaults == 1        \* failing external calls met by a run in SpecOut
OutRestarts == 1      \* host restarts of a run in SpecOut

\* ------------------------------------------------------------------------
\* Program constants
\* ------------------------------------------------------------------------
CHUNK_SIZE == 1048576      \* 1 * 1024 * 1024, episode-processing.ts:82

Episodes == {"e1", "e2"}
Instances == 1..MaxInstances
Null == 0                  \* workflowId IS NULL

Statuses == {"pending", "downloading", "transcribing", "analyzing",
             "complete", "error"}

\* cancelAllJobs: status IN ('downloading', 'transcribing', 'analyzing')
InProgressStatuses == {"downloading", "transcribing", "analyzing"}

Min(a, b) == IF a < b THEN a ELSE b

\* ------------------------------------------------------------------------
\* Chunk planning: the loop of step 'chunk-audio'
\* ------------------------------------------------------------------------
\* the end of the slice that starts at offset, without the clamp
ChunkEndBad(offset, byteLength) == offset + CHUNK_SIZE

\* the end of the slice that starts at offset
ChunkEnd(offset, byteLength) == Min(offset + CHUNK_SIZE, byteLength)

\* audioBuffer.slice(offset, Math.min(offset + CHUNK_SIZE, byteLength))
SliceAt(offset, byteLength) ==
    [start |-> offset, end |-> ChunkEnd(offset, byteLength)]

\* for (offset = 0; offset < byteLength; offset += CHUNK_SIZE)
RECURSIVE PlanFrom(_, _)
PlanFrom(offset, byteLength) ==
    IF offset < byteLength
    THEN <<SliceAt(offset, byteLength)>>
         \o PlanFrom(offset + CHUNK_SIZE, byteLength)
    ELSE <<>>

\* the chunk list of a blob of byteLength bytes
PlanChunks(byteLength) == PlanFrom(0, byteLength)

\* size in bytes of the audio at each episode's audioUrl
AudioSize(e) == IF e = "e1" THEN CHUNK_SIZE + 1 ELSE CHUNK_SIZE

\* ------------------------------------------------------------------------
\* Segmenter (src/src/lib/timestamp.ts), used by step 'store-transcript'
\* ------------------------------------------------------------------------
TargetWords == 15          \* groupWordsIntoSegments(allWords, 15)
MinSentenceWords == 5      \* endsWithPunctuation && currentWords.length >= 5

\* the loop without the isLast test: the words after the last close stay in
\* the buffer
RECURSIVE GroupFromNoFlush(_, _, _, _)
GroupFromNoFlush(words, i, currentWords, target) ==
    IF i > Len(words) THEN <<>>
    ELSE LET cur == Append(currentWords, words[i])
         IN IF (words[i].punct /\ Len(cur) >= MinSentenceWords)
               \/ Len(cur) >= target
            THEN <<cur>> \o GroupFromNoFlush(words, i + 1, <<>>, target)
            ELSE GroupFromNoFlush(words, i + 1, cur, target)

\* the loop closing at every sentence end, whatever the buffer holds
RECURSIVE GroupFromAnyPunct(_, _, _, _)
GroupFromAnyPunct(words, i, currentWords, target) ==
    IF i > Len(words) THEN <<>>
    ELSE LET cur == Append(currentWords, words[i])
         IN IF words[i].punct \/ Len(cur) >= target \/ i = Len(words)
            THEN <<cur>> \o GroupFromAnyPunct(words, i + 1, <<>>, target)
            ELSE GroupFromAnyPunct(words, i + 1, cur, target)

\* A word token: punct abstracts /[.!?]$/.test(word.trim())
RECURSIVE GroupFrom(_, _, _, _)
GroupFrom(words, i, currentWords, target) ==
    IF i > Len(words) THEN <<>>
    ELSE LET cur == Append(currentWords, words[i])
             endsWithPunctuation == words[i].punct
             atTarget == Len(cur) >= target
             isLast == i = Len(words)
         IN IF (endsWithPunctuation /\ Len(cur) >= MinSentenceWords)
               \/ atTarget \/ isLast
            THEN <<cur>> \o GroupFrom(words, i + 1, <<>>, target)
            ELSE GroupFrom(words, i + 1, cur, target)

groupWordsIntoSegments(words, target) ==
    IF Len(words) = 0 THEN <<>> ELSE GroupFrom(words, 1, <<>>, target)

\* ------------------------------------------------------------------------
\* State
\* ------------------------------------------------------------------------
VARIABLES
    \* record store: the columns of table episodes (src/src/db/schema.ts)
    status,         \* episodes.status
    workflowId,     \* episodes.workflow_id (Null when not set)
    errorMessage,   \* episodes.error_message ("null" when not set)
    r2Key,          \* episodes.r2_key is set
    segments,       \* transcript_segments: per episode, the segment_index of
                    \* every row, in insertion order
    analyses,       \* episode_analyses: per episode, the number of rows
    \* blob store (AUDIO_BUCKET)
    audio,          \* podcasts/{podcastId}/episodes/{episodeId}.mp3 exists
    chunkObjs,      \* per episode, the i with .../chunk_i.mp3 stored
    \* workflow engine (EPISODE_WORKFLOW)
    run,            \* per instance id, the state of its run()
    nInst,          \* instances created so far
    trig,           \* instances whose creator has not yet recorded their id
    \* cancelAllJobs in progress
    cancelPc, cancelFound, cancelTodo, cancelledCount, cancelResult,
    \* resetEpisode in progress
    resetPc, resetTarget, resetAlone,
    \* what the environment may still do: instances to create, external
    \* calls to fail, host restarts, admin calls
    budget,
    \* observations of the external calls made by each run
    obs,
    \* chunk planner run on its own
    planSize, planOffset, planChunks, planPc,
    \* the transcription loop of run() on its own
    whisper,           \* per chunk, the result the speech-to-text call gives
    transcriptions,    \* const transcriptions = []
    cumulativeOffset,  \* let cumulativeOffset = 0
    mergePc,
    \* step 'store-transcript' on the merged transcriptions
    storeSegs,         \* let segments, then the rows inserted
    timeOffset,        \* let timeOffset = 0
    storeAt,           \* position of for (const t of transcriptions)
    \* groupWordsIntoSegments called on its own
    segWords, segTarget, segOut, segPc,
    \* generateWeeklyAnalysis and what it reads
    publishedAt,     \* episodes.published_at
    now,             \* the clock read by new Date(), in seconds
    weeklyRows,      \* table weekly_analyses, in insertion order
    weeklyPc, weeklyForce, weeklyEnd, weeklyRecent, weeklyResult,
    weeklyAiCalls,   \* calls of the text-generation service made so far
    \* importPastEpisodes and what it reads
    feed,            \* the items parseFeed returns for the podcast's feed
    guids,           \* guid of every stored episode of the podcast
    importPc, importTodo, importCreated, importedCount,
    \* removePodcast and what it reads
    rows,            \* the episodes that have a row in table episodes
    removePc, removeFound, removeTodo,
    isDemo,          \* the deployment's IS_DEMO setting
    \* parseWeeklyAnalysis called on its own
    weeklyResponse,  \* the response text, as a sequence of tokens
    weeklyParsed,    \* what the call returned
    parsePc,
    \* pollAllFeeds: concurrent invocations over one podcast's feed
    pollPc,          \* per invocation, its position in the item loop
    pollItem,        \* per invocation, the feed item it is at
    pollRows,        \* the episode rows inserted, in insertion order
    pollInsts        \* the pipeline instances created, in creation order

dbVars == <<status, workflowId, errorMessage, r2Key, segments, analyses>>
blobVars == <<audio, chunkObjs>>
engineVars == <<run, nInst, trig>>
cancelVars == <<cancelPc, cancelFound, cancelTodo, cancelledCount, cancelResult>>
resetVars == <<resetPc, resetTarget, resetAlone>>
planVars == <<planSize, planOffset, planChunks, planPc>>
mergeVars == <<whisper, transcriptions, cumulativeOffset, mergePc,
              storeSegs, timeOffset, storeAt>>
segVars == <<segWords, segTarget, segOut, segPc>>
weeklyVars == <<publishedAt, now, weeklyRows, weeklyPc, weeklyForce,
                weeklyEnd, weeklyRecent, weeklyResult, weeklyAiCalls>>
importVars == <<feed, guids, importPc, importTodo, importCreated,
               importedCount>>
removeVars == <<rows, removePc, removeFound, removeTodo, isDemo>>
parseVars == <<weeklyResponse, weeklyParsed, parsePc>>
pollVars == <<pollPc, pollItem, pollRows, pollInsts>>
adminVars == <<importVars, removeVars, parseVars, pollVars>>
pureVars == <<planVars, mergeVars, segVars, weeklyVars, adminVars>>
vars == <<dbVars, blobVars, engineVars, cancelVars, resetVars, budget,
          obs, pureVars>>

\* ------------------------------------------------------------------------
\* The steps of EpisodeProcessingWorkflow.run, in program order
\* ------------------------------------------------------------------------
StepNames == <<"download-audio", "chunk-audio", "update-status-transcribing",
               "transcribe-chunk", "store-transcript",
               "update-status-analyzing", "analyze-transcript",
               "store-analysis", "cleanup-chunks">>

\* the name under which step.do records a result: `transcribe-chunk-${i}`
StepKey(pc, ci) == <<pc, IF pc = "transcribe-chunk" THEN ci ELSE 0>>

\* retries: { limit: ... } of the steps that state a retry policy
RetryLimitLow(pc) ==
    CASE pc = "download-audio" -> 2
      [] pc = "transcribe-chunk" -> 1
      [] pc = "analyze-transcript" -> 1

RetryLimit(pc) ==
    CASE pc = "download-audio" -> 3
      [] pc = "transcribe-chunk" -> 2
      [] pc = "analyze-transcript" -> 2

\* Step Executor: a step under maxRetries = n is attempted at most n + 1 times
MaxAttempts(pc) == RetryLimit(pc) + 1

\* chunkKeys.length for the blob of episode e
NumChunks(e) == Len(PlanChunks(AudioSize(e)))

ChunkBytes(e, c) ==
    LET ch == PlanChunks(AudioSize(e))[c + 1] IN ch.end - ch.start

\* the chunk indexes any run of the model meets
ChunkIdx == UNION {0..(NumChunks(e) - 1) : e \in Episodes}

\* what a speech-to-text response holds: word tokens and text, text
\* without word tokens, or neither
SttKinds == {"words", "text", "empty"}

\* the record 'analyze-transcript' returns, before the step has returned
NoAnalysis == [summary |-> "none", tags |-> "none", themes |-> "none",
               sentiment |-> "none", keyQuotes |-> "none"]

\* res and analysis are the recorded results of the transcribe-chunk steps
\* and of 'analyze-transcript'
NoRun == [ep |-> "e1", state |-> "none", pc |-> "download-audio", ci |-> 0,
          n |-> 0, phase |-> "idle", stt |-> {}, attempts |-> 0, log |-> {},
          res |-> [c \in ChunkIdx |-> "none"], analysis |-> NoAnalysis]

\* the steps that state a retry policy, by recorded name
PolicyKeys == {StepKey("download-audio", 0), StepKey("analyze-transcript", 0)}
              \cup {StepKey("transcribe-chunk", c) : c \in ChunkIdx}

\* observations of one run: inv = invocations of each step's action,
\* fetchOk = fetches of the source URL that returned ok, fetchHad = fetches
\* issued while the episode's blob already existed, sttOk = speech-to-text
\* calls that returned, per chunk, putOk = writes of the episode's blob that
\* completed, aiOk = text-generation calls that returned, response = what
\* the last of them returned
NoObs == [inv |-> [k \in PolicyKeys |-> 0], fetchOk |-> 0, fetchHad |-> 0,
          putOk |-> 0, sttOk |-> [c \in ChunkIdx |-> 0], aiOk |-> 0,
          response |-> [fence |-> "none", body |-> "none"]]

\* the state after deployment: the feed poll has stored the episodes, nothing
\* is downloaded, no instance exists, no admin call is in progress
InitStore ==
    /\ status = [e \in Episodes |-> "pending"]
    /\ workflowId = [e \in Episodes |-> Null]
    /\ errorMessage = [e \in Episodes |-> "null"]
    /\ r2Key = [e \in Episodes |-> FALSE]
    /\ segments = [e \in Episodes |-> <<>>]
    /\ analyses = [e \in Episodes |-> 0]
    /\ audio = [e \in Episodes |-> FALSE]
    /\ chunkObjs = [e \in Episodes |-> {}]
    /\ run = [i \in Instances |-> NoRun]
    /\ nInst = 0
    /\ trig = {}
    /\ cancelPc = "idle" /\ cancelFound = {} /\ cancelTodo = {}
    /\ cancelledCount = 0 /\ cancelResult = 0
    /\ resetPc = "idle" /\ resetTarget = "e1" /\ resetAlone = FALSE
    /\ obs = [i \in Instances |-> NoObs]

PlanOff ==
    planSize = 0 /\ planOffset = 0 /\ planChunks = <<>> /\ planPc = "off"

MergeOff ==
    /\ whisper = <<>> /\ transcriptions = <<>>
    /\ cumulativeOffset = 0 /\ mergePc = "off"
    /\ storeSegs = <<>> /\ timeOffset = 0 /\ storeAt = 1

SegOff ==
    segWords = <<>> /\ segTarget = TargetWords /\ segOut = <<>>
    /\ segPc = "off"

ImportOff ==
    /\ feed = <<>> /\ guids = {}
    /\ importPc = "off" /\ importTodo = <<>> /\ importCreated = <<>>
    /\ importedCount = 0

RemoveOff ==
    /\ rows = Episodes
    /\ removePc = "off" /\ removeFound = {} /\ removeTodo = {}
    /\ isDemo = FALSE

NoParsed == [analysis |-> <<>>, trendingTopics |-> "none"]

ParseOff ==
    weeklyResponse = <<>> /\ weeklyParsed = NoParsed /\ parsePc = "off"

PollOff ==
    /\ pollPc = <<>> /\ pollItem = <<>>
    /\ pollRows = <<>> /\ pollInsts = <<>>

AdminOff == ImportOff /\ RemoveOff /\ ParseOff /\ PollOff

NoWeeklyResult == [kind |-> "none", id |-> 0, episodeCount |-> 0]

WeeklyOff ==
    /\ publishedAt = [e \in Episodes |-> 0]
    /\ now = 0
    /\ weeklyRows = <<>>
    /\ weeklyPc = "off" /\ weeklyForce = FALSE /\ weeklyEnd = 0
    /\ weeklyRecent = {} /\ weeklyResult = NoWeeklyResult
    /\ weeklyAiCalls = 0

\* ------------------------------------------------------------------------
\* Step Executor (step.do of the workflow engine)
\* ------------------------------------------------------------------------
EpisodeOf(i) == run[i].ep

\* a run() that goes from 'chunk-audio' straight to the transcription loop
AfterStepSkipsStatus(r) ==
    CASE r.pc = "download-audio" -> [r EXCEPT !.pc = "chunk-audio"]
      [] r.pc = "chunk-audio" ->
            [r EXCEPT !.pc = "transcribe-chunk", !.ci = 0,
                      !.n = NumChunks(r.ep)]
      [] r.pc = "update-status-transcribing" ->
            [r EXCEPT !.pc = "transcribe-chunk", !.ci = 0]
      [] r.pc = "transcribe-chunk" ->
            IF r.ci + 1 < r.n THEN [r EXCEPT !.ci = r.ci + 1]
            ELSE [r EXCEPT !.pc = "store-transcript"]
      [] r.pc = "store-transcript" -> [r EXCEPT !.pc = "update-status-analyzing"]
      [] r.pc = "update-status-analyzing" -> [r EXCEPT !.pc = "analyze-transcript"]
      [] r.pc = "analyze-transcript" -> [r EXCEPT !.pc = "store-analysis"]
      [] r.pc = "store-analysis" -> [r EXCEPT !.pc = "cleanup-chunks"]
      [] r.pc = "cleanup-chunks" -> [r EXCEPT !.pc = "end", !.state = "complete"]

\* control flow of run() after the step at r.pc has returned
AfterStep(r) ==
    CASE r.pc = "download-audio" -> [r EXCEPT !.pc = "chunk-audio"]
      [] r.pc = "chunk-audio" ->
            [r EXCEPT !.pc = "update-status-transcribing",
                      !.n = NumChunks(r.ep)]
      [] r.pc = "update-status-transcribing" ->
            IF 0 < r.n THEN [r EXCEPT !.pc = "transcribe-chunk", !.ci = 0]
            ELSE [r EXCEPT !.pc = "store-transcript"]
      [] r.pc = "transcribe-chunk" ->
            IF r.ci + 1 < r.n THEN [r EXCEPT !.ci = r.ci + 1]
            ELSE [r EXCEPT !.pc = "store-transcript"]
      [] r.pc = "store-transcript" -> [r EXCEPT !.pc = "update-status-analyzing"]
      [] r.pc = "update-status-analyzing" -> [r EXCEPT !.pc = "analyze-transcript"]
      [] r.pc = "analyze-transcript" -> [r EXCEPT !.pc = "store-analysis"]
      [] r.pc = "store-analysis" -> [r EXCEPT !.pc = "cleanup-chunks"]
      [] r.pc = "cleanup-chunks" -> [r EXCEPT !.pc = "end", !.state = "complete"]

\* the step's result is already recorded for this run: step.do returns it
Recorded(r) == StepKey(r.pc, r.ci) \in r.log

\* the action of the step at r.pc returned: the engine records the result
\* under the step's name and run() goes on; an aborted instance records
\* nothing and starts nothing
Succeed(r) ==
    IF r.state = "running"
    THEN AfterStep([r EXCEPT !.log = @ \cup {StepKey(r.pc, r.ci)},
                             !.attempts = 0, !.phase = "idle", !.stt = {}])
    ELSE [r EXCEPT !.phase = "idle", !.stt = {}]

\* the action of the step at r.pc threw: retried until the policy's
\* attempts are used up, then the error leaves run() and the instance ends
\* errored
Fail(r) ==
    IF r.state # "running" THEN [r EXCEPT !.phase = "idle", !.stt = {}]
    ELSE IF r.attempts >= MaxAttempts(r.pc)
    THEN [r EXCEPT !.state = "errored", !.phase = "idle", !.stt = {}]
    ELSE [r EXCEPT !.phase = "idle", !.stt = {}]

\* a step may be entered: the instance runs, no attempt of it is in flight
\* and its result is not recorded
CanEnter(i, pc) ==
    /\ run[i].state = "running"
    /\ run[i].pc = pc
    /\ run[i].phase = "idle"
    /\ ~Recorded(run[i])

CanAttempt(i, pc) == CanEnter(i, pc) /\ run[i].attempts < MaxAttempts(pc)

Invoked(o, key) == [o EXCEPT !.inv[key] = @ + 1]

\* step.do on a step whose result is recorded: returns it, runs nothing
Replay(i) ==
    /\ run[i].state = "running"
    /\ run[i].phase = "idle"
    /\ run[i].pc # "end"
    /\ Recorded(run[i])
    /\ run' = [run EXCEPT ![i] = AfterStep(run[i])]
    /\ UNCHANGED <<dbVars, blobVars, nInst, trig, cancelVars, resetVars,
                   budget, obs, pureVars>>

\* the host restarts: the engine calls run() again from its first line with
\* the same step log
Restart(i) ==
    /\ run[i].state = "running"
    /\ run[i].phase = "idle"
    /\ run[i].pc # "download-audio"
    /\ budget.restarts > 0
    /\ budget' = [budget EXCEPT !.restarts = @ - 1]
    /\ run' = [run EXCEPT ![i] = [@ EXCEPT !.pc = "download-audio",
                                           !.ci = 0, !.n = 0]]
    /\ UNCHANGED <<dbVars, blobVars, nInst, trig, cancelVars, resetVars, obs,
                   pureVars>>

\* ------------------------------------------------------------------------
\* Step 1: 'download-audio'
\* ------------------------------------------------------------------------
\* the status update and the fetch made in run() itself, outside step.do:
\* every replay of run() issues them again
DownloadBeginOutsideStep(i) ==
    /\ run[i].state = "running"
    /\ run[i].pc = "download-audio"
    /\ run[i].phase = "idle"
    /\ run[i].attempts < MaxAttempts("download-audio")
    /\ status' = [status EXCEPT ![EpisodeOf(i)] = "downloading"]
    /\ run' = [run EXCEPT ![i] = [@ EXCEPT !.attempts = @ + 1,
                                           !.phase = "fetch"]]
    /\ obs' = [obs EXCEPT ![i] =
                 [Invoked(@, StepKey("download-audio", 0)) EXCEPT
                    !.fetchHad = IF audio[EpisodeOf(i)] THEN @ + 1 ELSE @]]
    /\ UNCHANGED <<workflowId, errorMessage, r2Key, segments, analyses,
                   blobVars, nInst, trig, cancelVars, resetVars, budget,
                   pureVars>>

\* db.update(status: 'downloading'), then fetch(audioUrl) is issued
DownloadBegin(i) ==
    /\ CanAttempt(i, "download-audio")
    /\ status' = [status EXCEPT ![EpisodeOf(i)] = "downloading"]
    /\ run' = [run EXCEPT ![i] = [@ EXCEPT !.attempts = @ + 1,
                                           !.phase = "fetch"]]
    /\ obs' = [obs EXCEPT ![i] =
                 [Invoked(@, StepKey("download-audio", 0)) EXCEPT
                    !.fetchHad = IF audio[EpisodeOf(i)] THEN @ + 1 ELSE @]]
    /\ UNCHANGED <<workflowId, errorMessage, r2Key, segments, analyses,
                   blobVars, nInst, trig, cancelVars, resetVars, budget,
                   pureVars>>

\* if (!response.ok) throw new Error(`Download failed: ...`)
DownloadFetchFail(i) ==
    /\ run[i].pc = "download-audio" /\ run[i].phase = "fetch"
    /\ budget.faults > 0
    /\ budget' = [budget EXCEPT !.faults = @ - 1]
    /\ run' = [run EXCEPT ![i] = Fail(@)]
    /\ UNCHANGED <<dbVars, blobVars, nInst, trig, cancelVars, resetVars, obs,
                   pureVars>>

DownloadFetchOk(i) ==
    /\ run[i].pc = "download-audio" /\ run[i].phase = "fetch"
    /\ run' = [run EXCEPT ![i] = [@ EXCEPT !.phase = "put"]]
    /\ obs' = [obs EXCEPT ![i].fetchOk = @ + 1]
    /\ UNCHANGED <<dbVars, blobVars, nInst, trig, cancelVars, resetVars,
                   budget, pureVars>>

\* AUDIO_BUCKET.put(key, response.body) rejects (the body stream breaks)
DownloadPutFail(i) ==
    /\ run[i].pc = "download-audio" /\ run[i].phase = "put"
    /\ budget.faults > 0
    /\ budget' = [budget EXCEPT !.faults = @ - 1]
    /\ run' = [run EXCEPT ![i] = Fail(@)]
    /\ UNCHANGED <<dbVars, blobVars, nInst, trig, cancelVars, resetVars, obs,
                   pureVars>>

DownloadPutOk(i) ==
    /\ run[i].pc = "download-audio" /\ run[i].phase = "put"
    /\ audio' = [audio EXCEPT ![EpisodeOf(i)] = TRUE]
    /\ r2Key' = [r2Key EXCEPT ![EpisodeOf(i)] = TRUE]
    /\ run' = [run EXCEPT ![i] = Succeed(@)]
    /\ obs' = [obs EXCEPT ![i].putOk = @ + 1]
    /\ UNCHANGED <<status, workflowId, errorMessage, segments, analyses,
                   chunkObjs, nInst, trig, cancelVars, resetVars, budget,
                   pureVars>>

\* ------------------------------------------------------------------------
\* Step 2: 'chunk-audio'
\* ------------------------------------------------------------------------
\* AUDIO_BUCKET.get(r2Key) and object.arrayBuffer(): the blob is in memory.
\* (No modelled operation deletes an episode's blob, so the get finds it.)
ChunkLoad(i) ==
    /\ CanEnter(i, "chunk-audio")
    /\ audio[EpisodeOf(i)]
    /\ run' = [run EXCEPT ![i] = [@ EXCEPT !.phase = "loaded"]]
    /\ UNCHANGED <<dbVars, blobVars, nInst, trig, cancelVars, resetVars,
                   budget, obs, pureVars>>

\* the slicing loop: one put per chunk, then return chunks
ChunkStore(i) ==
    /\ run[i].pc = "chunk-audio" /\ run[i].phase = "loaded"
    /\ chunkObjs' = [chunkObjs EXCEPT ![EpisodeOf(i)] =
                        @ \cup (0..(NumChunks(EpisodeOf(i)) - 1))]
    /\ run' = [run EXCEPT ![i] = Succeed(@)]
    /\ UNCHANGED <<dbVars, audio, nInst, trig, cancelVars, resetVars, budget,
                   obs, pureVars>>

\* ------------------------------------------------------------------------
\* Step 3: 'update-status-transcribing' and `transcribe-chunk-${i}`
\* ------------------------------------------------------------------------
UpdateStatusTranscribing(i) ==
    /\ CanEnter(i, "update-status-transcribing")
    /\ status' = [status EXCEPT ![EpisodeOf(i)] = "transcribing"]
    /\ run' = [run EXCEPT ![i] = Succeed(@)]
    /\ UNCHANGED <<workflowId, errorMessage, r2Key, segments, analyses,
                   blobVars, nInst, trig, cancelVars, resetVars, budget, obs,
                   pureVars>>

\* a Promise.all over the chunks instead of the awaited for loop
CanStartChunkParallel(r, c) ==
    /\ c < r.n
    /\ c \notin r.stt
    /\ StepKey("transcribe-chunk", c) \notin r.log

\* for (let i = 0; i < chunkKeys.length; i++) { await step.do(...) }
CanStartChunk(r, c) == c = r.ci /\ r.stt = {}

TranscribeGuard(i, c) ==
    /\ run[i].state = "running"
    /\ run[i].pc = "transcribe-chunk"
    /\ CanStartChunk(run[i], c)
    /\ StepKey("transcribe-chunk", c) \notin run[i].log
    /\ run[i].attempts < MaxAttempts("transcribe-chunk")

\* get(chunkKeys[i]), base64, AI.run(whisper) issued
TranscribeBegin(i, c) ==
    /\ TranscribeGuard(i, c)
    /\ c \in chunkObjs[EpisodeOf(i)]
    /\ run' = [run EXCEPT ![i] = [@ EXCEPT !.attempts = @ + 1,
                                           !.phase = "stt",
                                           !.stt = @ \cup {c}]]
    /\ obs' = [obs EXCEPT ![i] = Invoked(@, StepKey("transcribe-chunk", c))]
    /\ UNCHANGED <<dbVars, blobVars, nInst, trig, cancelVars, resetVars,
                   budget, pureVars>>

\* if (!chunkObj) throw new Error(`Chunk ${i} not found`)
TranscribeChunkMissing(i, c) ==
    /\ TranscribeGuard(i, c)
    /\ c \notin chunkObjs[EpisodeOf(i)]
    /\ run' = [run EXCEPT ![i] = Fail([@ EXCEPT !.attempts = @ + 1])]
    /\ obs' = [obs EXCEPT ![i] = Invoked(@, StepKey("transcribe-chunk", c))]
    /\ UNCHANGED <<dbVars, blobVars, nInst, trig, cancelVars, resetVars,
                   budget, pureVars>>

TranscribeFail(i, c) ==
    /\ run[i].pc = "transcribe-chunk" /\ c \in run[i].stt
    /\ budget.faults > 0
    /\ budget' = [budget EXCEPT !.faults = @ - 1]
    /\ run' = [run EXCEPT ![i] = Fail(@)]
    /\ UNCHANGED <<dbVars, blobVars, nInst, trig, cancelVars, resetVars, obs,
                   pureVars>>

\* AI.run(whisper) returns; the step returns { text, words, duration }
TranscribeOk(i, c, kind) ==
    /\ run[i].pc = "transcribe-chunk" /\ c \in run[i].stt
    /\ run' = [run EXCEPT ![i] =
                 Succeed(IF @.state = "running"
                         THEN [@ EXCEPT !.ci = c, !.res[c] = kind]
                         ELSE [@ EXCEPT !.ci = c])]
    /\ obs' = [obs EXCEPT ![i].sttOk[c] = @ + 1]
    /\ UNCHANGED <<dbVars, blobVars, nInst, trig, cancelVars, resetVars,
                   budget, pureVars>>

\* ------------------------------------------------------------------------
\* Step 4: 'store-transcript'
\* ------------------------------------------------------------------------
\* the word tokens of a response that holds some: one token that ends a
\* sentence
WhisperWords == <<[punct |-> TRUE, start |-> 0, end |-> 1]>>

\* transcriptions.flatMap(t => t.words) over the first n chunks
RECURSIVE AllWords(_, _)
AllWords(res, n) ==
    IF n = 0 THEN <<>>
    ELSE AllWords(res, n - 1)
         \o (IF res[n - 1] = "words" THEN WhisperWords ELSE <<>>)

\* the fallback loop over the first n chunks: a chunk without text is
\* skipped, the text of the others is one sentence
RECURSIVE FallbackSegments(_, _)
FallbackSegments(res, n) ==
    IF n = 0 THEN 0
    ELSE FallbackSegments(res, n - 1) + (IF res[n - 1] = "empty" THEN 0 ELSE 1)

\* segmentIndex of the rows the insert loop writes
SegmentIndexes(res, n) ==
    LET allWords == AllWords(res, n)
        count == IF Len(allWords) > 0
                 THEN Len(groupWordsIntoSegments(allWords, TargetWords))
                 ELSE FallbackSegments(res, n)
    IN [k \in 1..count |-> k - 1]

StoreTranscript(i) ==
    /\ CanEnter(i, "store-transcript")
    /\ segments' = [segments EXCEPT ![EpisodeOf(i)] =
                       @ \o SegmentIndexes(run[i].res, run[i].n)]
    /\ run' = [run EXCEPT ![i] = Succeed(@)]
    /\ UNCHANGED <<status, workflowId, errorMessage, r2Key, analyses, blobVars,
                   nInst, trig, cancelVars, resetVars, budget, obs, pureVars>>

\* ------------------------------------------------------------------------
\* Step 5: 'update-status-analyzing' and 'analyze-transcript'
\* ------------------------------------------------------------------------
UpdateStatusAnalyzing(i) ==
    /\ CanEnter(i, "update-status-analyzing")
    /\ status' = [status EXCEPT ![EpisodeOf(i)] = "analyzing"]
    /\ run' = [run EXCEPT ![i] = Succeed(@)]
    /\ UNCHANGED <<workflowId, errorMessage, r2Key, segments, analyses,
                   blobVars, nInst, trig, cancelVars, resetVars, budget, obs,
                   pureVars>>

AnalyzeBegin(i) ==
    /\ CanAttempt(i, "analyze-transcript")
    /\ run' = [run EXCEPT ![i] = [@ EXCEPT !.attempts = @ + 1,
                                           !.phase = "ai"]]
    /\ obs' = [obs EXCEPT ![i] = Invoked(@, StepKey("analyze-transcript", 0))]
    /\ UNCHANGED <<dbVars, blobVars, nInst, trig, cancelVars, resetVars,
                   budget, pureVars>>

AnalyzeFail(i) ==
    /\ run[i].pc = "analyze-transcript" /\ run[i].phase = "ai"
    /\ budget.faults > 0
    /\ budget' = [budget EXCEPT !.faults = @ - 1]
    /\ run' = [run EXCEPT ![i] = Fail(@)]
    /\ UNCHANGED <<dbVars, blobVars, nInst, trig, cancelVars, resetVars, obs,
                   pureVars>>

\* result.response || '' as text: fence tells how the trimmed text is
\* wrapped ("none": no leading ```; "json", "bare": ```json or ``` up to a
\* closing ``` that ends the text; "other": another tag after the opening
\* ```; "trailing": text after the closing ```), body what the rest is
\* ("object": a JSON object with the five fields; "partial": a JSON object
\* without them, or with fields of other types; "scalar": a JSON number,
\* string, boolean or array; "null": the JSON literal null; "garbage": no
\* JSON; "empty": nothing, as when result.response is missing)
AiFences == {"none", "json", "bare", "other", "trailing"}
AiBodies == {"object", "partial", "scalar", "null", "garbage", "empty"}
AiResponses == [fence : AiFences, body : AiBodies]

PlainJson == [fence |-> "none", body |-> "object"]

\* jsonStr after .replace(/^```(?:json)?\n?/, '').replace(/\n?```$/, '')
StripFences(response) ==
    IF response.fence \in {"none", "json", "bare"} THEN response.body
    ELSE "garbage"

\* what the try block does with jsonStr: JSON.parse throws, or reading
\* parsed.summary throws (null), or the record is built
TryParse(jsonStr) ==
    CASE jsonStr \in {"garbage", "empty", "null"} -> [threw |-> TRUE]
      [] jsonStr = "object" ->
            [threw |-> FALSE, summary |-> "field", tags |-> "field",
             themes |-> "field", sentiment |-> "field",
             keyQuotes |-> "field"]
      [] jsonStr \in {"partial", "scalar"} ->
            [threw |-> FALSE, summary |-> "blank", tags |-> "empty",
             themes |-> "empty", sentiment |-> "blank",
             keyQuotes |-> "empty"]

\* the catch block: summary: response.slice(0, 2000), sentiment: 'unknown'
Degraded == [threw |-> FALSE, summary |-> "head", tags |-> "empty",
             themes |-> "empty", sentiment |-> "unknown",
             keyQuotes |-> "empty"]

\* the function without its catch block
parseAnalysisResultNoCatch(response) == TryParse(StripFences(response))

parseAnalysisResult(response) ==
    LET tried == TryParse(StripFences(response))
    IN IF tried.threw THEN Degraded ELSE tried

\* AI.run returns; return parseAnalysisResult(result.response || '')
AnalyzeOk(i, response) ==
    /\ run[i].pc = "analyze-transcript" /\ run[i].phase = "ai"
    /\ LET parsed == parseAnalysisResult(response)
       IN run' = [run EXCEPT ![i] =
                    IF parsed.threw THEN Fail(@)
                    ELSE Succeed(IF @.state = "running"
                                 THEN [@ EXCEPT !.analysis =
                                          [f \in DOMAIN NoAnalysis |->
                                              parsed[f]]]
                                 ELSE @)]
    /\ obs' = [obs EXCEPT ![i].aiOk = @ + 1, ![i].response = response]
    /\ UNCHANGED <<dbVars, blobVars, nInst, trig, cancelVars, resetVars,
                   budget, pureVars>>

\* ------------------------------------------------------------------------
\* Step 6: 'store-analysis' and step 7: 'cleanup-chunks'
\* ------------------------------------------------------------------------
\* the insert into a table without the unique index on episode_id
StoreAnalysisNoUnique(i) ==
    /\ CanEnter(i, "store-analysis")
    /\ analyses' = [analyses EXCEPT ![EpisodeOf(i)] = @ + 1]
    /\ status' = [status EXCEPT ![EpisodeOf(i)] = "complete"]
    /\ run' = [run EXCEPT ![i] = Succeed(@)]
    /\ UNCHANGED <<workflowId, errorMessage, r2Key, segments, blobVars, nInst,
                   trig, cancelVars, resetVars, budget, obs, pureVars>>

StoreAnalysis(i) ==
    /\ CanEnter(i, "store-analysis")
    /\ analyses[EpisodeOf(i)] = 0
    /\ analyses' = [analyses EXCEPT ![EpisodeOf(i)] = 1]
    /\ status' = [status EXCEPT ![EpisodeOf(i)] = "complete"]
    /\ run' = [run EXCEPT ![i] = Succeed(@)]
    /\ UNCHANGED <<workflowId, errorMessage, r2Key, segments, blobVars, nInst,
                   trig, cancelVars, resetVars, budget, obs, pureVars>>

\* episode_analyses.episode_id is UNIQUE: the insert of a second row throws;
\* the step states no retry policy, and once the engine gives up the error
\* leaves run()
StoreAnalysisConflict(i) ==
    /\ CanEnter(i, "store-analysis")
    /\ analyses[EpisodeOf(i)] > 0
    /\ run' = [run EXCEPT ![i] = [@ EXCEPT !.state = "errored"]]
    /\ UNCHANGED <<dbVars, blobVars, nInst, trig, cancelVars, resetVars,
                   budget, obs, pureVars>>

\* a cleanup that deletes by the podcast's prefix: the chunk objects of
\* every episode are removed
CleanupChunksByPrefix(i) ==
    /\ CanEnter(i, "cleanup-chunks")
    /\ chunkObjs' = [e \in Episodes |-> {}]
    /\ run' = [run EXCEPT ![i] = Succeed(@)]
    /\ UNCHANGED <<dbVars, audio, nInst, trig, cancelVars, resetVars, budget,
                   obs, pureVars>>

CleanupChunks(i) ==
    /\ CanEnter(i, "cleanup-chunks")
    /\ chunkObjs' = [chunkObjs EXCEPT ![EpisodeOf(i)] =
                        @ \ (0..(run[i].n - 1))]
    /\ run' = [run EXCEPT ![i] = Succeed(@)]
    /\ UNCHANGED <<dbVars, audio, nInst, trig, cancelVars, resetVars, budget,
                   obs, pureVars>>

\* ------------------------------------------------------------------------
\* processEpisode (src/src/lib/server-fns.ts)
\* ------------------------------------------------------------------------
\* some run of episode e can still write, or its id is still to be recorded
Live(e) ==
    \E i \in Instances :
        /\ run[i].ep = e
        /\ run[i].state # "none"
        /\ (run[i].state = "running" \/ run[i].phase # "idle" \/ i \in trig)

\* EPISODE_WORKFLOW.create({ params }): the instance starts to run
TriggerCreate(e) ==
    /\ budget.inst > 0
    /\ budget' = [budget EXCEPT !.inst = @ - 1]
    /\ nInst' = nInst + 1
    /\ run' = [run EXCEPT ![nInst + 1] =
                 [NoRun EXCEPT !.ep = e, !.state = "running"]]
    /\ trig' = trig \cup {nInst + 1}
    /\ resetAlone' = (resetAlone /\ ~(resetPc # "idle" /\ resetTarget = e))
    /\ UNCHANGED <<dbVars, blobVars, cancelVars, resetPc, resetTarget, obs,
                   pureVars>>

\* update episodes set workflowId = instance.id, status = 'downloading'
TriggerRecord(i) ==
    /\ i \in trig
    /\ trig' = trig \ {i}
    /\ workflowId' = [workflowId EXCEPT ![EpisodeOf(i)] = i]
    /\ status' = [status EXCEPT ![EpisodeOf(i)] = "downloading"]
    /\ UNCHANGED <<errorMessage, r2Key, segments, analyses, blobVars, run,
                   nInst, cancelVars, resetVars, budget, obs, pureVars>>

\* ------------------------------------------------------------------------
\* cancelAllJobs
\* ------------------------------------------------------------------------
\* select id, workflowId from episodes where status IN (...)
CancelSelect ==
    /\ cancelPc = "idle"
    /\ budget.admin > 0
    /\ budget' = [budget EXCEPT !.admin = @ - 1]
    /\ cancelFound' = {e \in Episodes : status[e] \in InProgressStatuses}
    /\ cancelTodo' = {[id |-> e, workflowId |-> workflowId[e]] :
                        e \in {x \in Episodes : status[x] \in InProgressStatuses}}
    /\ cancelledCount' = 0
    /\ cancelPc' = "loop"
    /\ UNCHANGED <<dbVars, blobVars, engineVars, cancelResult, resetVars,
                   pureVars, obs>>

\* the row update and the count of one loop iteration
CancelRowLeaveStatus(episode) ==
    /\ status' = status
    /\ workflowId' = [workflowId EXCEPT ![episode.id] = Null]
    /\ errorMessage' = [errorMessage EXCEPT ![episode.id] = "null"]
    /\ cancelledCount' = cancelledCount + 1
    /\ cancelTodo' = cancelTodo \ {episode}

\* the row update with the where clause left out: every row is reset
CancelRowAll(episode) ==
    /\ status' = [e \in Episodes |-> "pending"]
    /\ workflowId' = [e \in Episodes |-> Null]
    /\ errorMessage' = [e \in Episodes |-> "null"]
    /\ cancelledCount' = cancelledCount + 1
    /\ cancelTodo' = cancelTodo \ {episode}

CancelRow(episode) ==
    /\ status' = [status EXCEPT ![episode.id] = "pending"]
    /\ workflowId' = [workflowId EXCEPT ![episode.id] = Null]
    /\ errorMessage' = [errorMessage EXCEPT ![episode.id] = "null"]
    /\ cancelledCount' = cancelledCount + 1
    /\ cancelTodo' = cancelTodo \ {episode}

\* the row is reset but instance.abort() is never called
CancelAbortForgets(episode) ==
    /\ cancelPc = "loop" /\ episode \in cancelTodo
    /\ episode.workflowId # Null
    /\ run[episode.workflowId].state = "running"
    /\ CancelRow(episode)
    /\ UNCHANGED <<r2Key, segments, analyses, blobVars, engineVars, cancelPc,
                   cancelFound, cancelResult, resetVars, budget, obs,
                   pureVars>>

\* instance.abort() succeeds: the instance is terminated
CancelAbort(episode) ==
    /\ cancelPc = "loop" /\ episode \in cancelTodo
    /\ episode.workflowId # Null
    /\ run[episode.workflowId].state = "running"
    /\ run' = [run EXCEPT ![episode.workflowId].state = "terminated"]
    /\ CancelRow(episode)
    /\ UNCHANGED <<r2Key, segments, analyses, blobVars, nInst, trig, cancelPc,
                   cancelFound, cancelResult, resetVars, budget, obs,
                   pureVars>>

\* get() or abort() throws (the instance has ended, or the call fails):
\* caught and ignored
CancelAbortThrows(episode) ==
    /\ cancelPc = "loop" /\ episode \in cancelTodo
    /\ episode.workflowId # Null
    /\ run[episode.workflowId].state = "running" => budget.faults > 0
    /\ budget' = IF run[episode.workflowId].state = "running"
                 THEN [budget EXCEPT !.faults = @ - 1] ELSE budget
    /\ CancelRow(episode)
    /\ UNCHANGED <<r2Key, segments, analyses, blobVars, engineVars, cancelPc,
                   cancelFound, cancelResult, resetVars, obs, pureVars>>

\* if (episode.workflowId) is false: no instance is recorded
CancelNoInstance(episode) ==
    /\ cancelPc = "loop" /\ episode \in cancelTodo
    /\ episode.workflowId = Null
    /\ CancelRow(episode)
    /\ UNCHANGED <<r2Key, segments, analyses, blobVars, engineVars, cancelPc,
                   cancelFound, cancelResult, resetVars, budget, obs,
                   pureVars>>

\* return { cancelledCount }
CancelReturn ==
    /\ cancelPc = "loop" /\ cancelTodo = {}
    /\ cancelResult' = cancelledCount
    /\ cancelPc' = "idle"
    /\ cancelFound' = {}
    /\ cancelledCount' = 0
    /\ UNCHANGED <<dbVars, blobVars, engineVars, cancelTodo, resetVars, budget,
                   obs, pureVars>>

\* ------------------------------------------------------------------------
\* resetEpisode
\* ------------------------------------------------------------------------
\* delete from transcript_segments where episodeId = data.episodeId
ResetSegments(e) ==
    /\ resetPc = "idle"
    /\ budget.admin > 0
    /\ budget' = [budget EXCEPT !.admin = @ - 1]
    /\ segments' = [segments EXCEPT ![e] = <<>>]
    /\ resetPc' = "analysis"
    /\ resetTarget' = e
    /\ resetAlone' = ~Live(e)
    /\ UNCHANGED <<status, workflowId, errorMessage, r2Key, analyses, blobVars,
                   engineVars, cancelVars, obs, pureVars>>

\* delete from episode_analyses where episodeId = data.episodeId
ResetAnalysis ==
    /\ resetPc = "analysis"
    /\ analyses' = [analyses EXCEPT ![resetTarget] = 0]
    /\ resetPc' = "episode"
    /\ UNCHANGED <<status, workflowId, errorMessage, r2Key, segments, blobVars,
                   engineVars, cancelVars, resetTarget, resetAlone, budget,
                   obs, pureVars>>

\* the row update of resetEpisode
ResetRowKeepInstance(e) ==
    /\ status' = [status EXCEPT ![e] = "pending"]
    /\ workflowId' = workflowId
    /\ errorMessage' = [errorMessage EXCEPT ![e] = "null"]

ResetRow(e) ==
    /\ status' = [status EXCEPT ![e] = "pending"]
    /\ workflowId' = [workflowId EXCEPT ![e] = Null]
    /\ errorMessage' = [errorMessage EXCEPT ![e] = "null"]

ResetEpisodeRow ==
    /\ resetPc = "episode"
    /\ ResetRow(resetTarget)
    /\ resetPc' = "idle"
    /\ UNCHANGED <<r2Key, segments, analyses, blobVars, engineVars, cancelVars,
                   resetTarget, resetAlone, budget, obs, pureVars>>

\* ------------------------------------------------------------------------
\* One pipeline run on its own: external calls fail, the host restarts
\* ------------------------------------------------------------------------
\* A single instance is created; its fetch, blob write, speech-to-text and
\* text-generation calls may fail, and the host may restart between step
\* attempts. No other run and no admin call touches the episode. The calls
\* that return give word tokens and a JSON object.
InitRun ==
    /\ AdminOff
    /\ InitStore
    /\ PlanOff
    /\ MergeOff
    /\ SegOff
    /\ WeeklyOff
    /\ budget = [inst |-> 1, faults |-> RunFaults, restarts |-> RunRestarts,
                 admin |-> 0]

NextRun ==
    \/ \E e \in Episodes : TriggerCreate(e)
    \/ \E i \in Instances : TriggerRecord(i)
    \/ \E i \in Instances : Replay(i)
    \/ \E i \in Instances : Restart(i)
    \/ \E i \in Instances : DownloadBegin(i)
    \/ \E i \in Instances : DownloadFetchFail(i)
    \/ \E i \in Instances : DownloadFetchOk(i)
    \/ \E i \in Instances : DownloadPutFail(i)
    \/ \E i \in Instances : DownloadPutOk(i)
    \/ \E i \in Instances : ChunkLoad(i)
    \/ \E i \in Instances : ChunkStore(i)
    \/ \E i \in Instances : UpdateStatusTranscribing(i)
    \/ \E i \in Instances, c \in ChunkIdx : TranscribeBegin(i, c)
    \/ \E i \in Instances, c \in ChunkIdx : TranscribeFail(i, c)
    \/ \E i \in Instances, c \in ChunkIdx : TranscribeOk(i, c, "words")
    \/ \E i \in Instances : StoreTranscript(i)
    \/ \E i \in Instances : UpdateStatusAnalyzing(i)
    \/ \E i \in Instances : AnalyzeBegin(i)
    \/ \E i \in Instances : AnalyzeFail(i)
    \/ \E i \in Instances : AnalyzeOk(i, PlainJson)
    \/ \E i \in Instances : StoreAnalysis(i)
    \/ \E i \in Instances : CleanupChunks(i)

SpecRun == InitRun /\ [][NextRun]_vars

\* ------------------------------------------------------------------------
\* One pipeline run on its own: what the external services return
\* ------------------------------------------------------------------------
\* A single instance is created; each speech-to-text call returns word
\* tokens, text only or nothing, and the text-generation call returns any
\* of the responses of AiResponses.
InitOut ==
    /\ AdminOff
    /\ InitStore
    /\ PlanOff
    /\ MergeOff
    /\ SegOff
    /\ WeeklyOff
    /\ budget = [inst |-> 1, faults |-> OutFaults, restarts |-> OutRestarts,
                 admin |-> 0]

NextOut ==
    \/ \E e \in Episodes : TriggerCreate(e)
    \/ \E i \in Instances : TriggerRecord(i)
    \/ \E i \in Instances : Replay(i)
    \/ \E i \in Instances : Restart(i)
    \/ \E i \in Instances : DownloadBegin(i)
    \/ \E i \in Instances : DownloadFetchOk(i)
    \/ \E i \in Instances : DownloadPutOk(i)
    \/ \E i \in Instances : ChunkLoad(i)
    \/ \E i \in Instances : ChunkStore(i)
    \/ \E i \in Instances : UpdateStatusTranscribing(i)
    \/ \E i \in Instances, c \in ChunkIdx : TranscribeBegin(i, c)
    \/ \E i \in Instances, c \in ChunkIdx : TranscribeFail(i, c)
    \/ \E i \in Instances, c \in ChunkIdx, kind \in SttKinds :
          TranscribeOk(i, c, kind)
    \/ \E i \in Instances : StoreTranscript(i)
    \/ \E i \in Instances : UpdateStatusAnalyzing(i)
    \/ \E i \in Instances : AnalyzeBegin(i)
    \/ \E i \in Instances : AnalyzeFail(i)
    \/ \E i \in Instances, response \in AiResponses :
          AnalyzeOk(i, response)
    \/ \E i \in Instances : StoreAnalysis(i)
    \/ \E i \in Instances : CleanupChunks(i)

SpecOut == InitOut /\ [][NextOut]_vars

\* ------------------------------------------------------------------------
\* The control plane over concurrent runs: trigger, cancel, reset
\* ------------------------------------------------------------------------
\* Several instances, over the same or different episodes, interleave with
\* cancelAllJobs and resetEpisode. The runs' external calls succeed; what
\* fails here is instance.abort(), the read of a chunk another run has
\* cleaned up, and the insert of a second analysis row.
InitCtl ==
    /\ AdminOff
    /\ InitStore
    /\ PlanOff
    /\ MergeOff
    /\ SegOff
    /\ WeeklyOff
    /\ budget = [inst |-> MaxInstances, faults |-> CtlFaults, restarts |-> 0,
                 admin |-> CtlAdminCalls]

NextCtl ==
    \/ \E e \in Episodes : TriggerCreate(e)
    \/ \E i \in Instances : TriggerRecord(i)
    \/ \E i \in Instances : DownloadBegin(i)
    \/ \E i \in Instances : DownloadFetchOk(i)
    \/ \E i \in Instances : DownloadPutOk(i)
    \/ \E i \in Instances : ChunkLoad(i)
    \/ \E i \in Instances : ChunkStore(i)
    \/ \E i \in Instances : UpdateStatusTranscribing(i)
    \/ \E i \in Instances, c \in ChunkIdx : TranscribeBegin(i, c)
    \/ \E i \in Instances, c \in ChunkIdx : TranscribeChunkMissing(i, c)
    \/ \E i \in Instances, c \in ChunkIdx : TranscribeOk(i, c, "words")
    \/ \E i \in Instances : StoreTranscript(i)
    \/ \E i \in Instances : UpdateStatusAnalyzing(i)
    \/ \E i \in Instances : AnalyzeBegin(i)
    \/ \E i \in Instances : AnalyzeOk(i, PlainJson)
    \/ \E i \in Instances : StoreAnalysis(i)
    \/ \E i \in Instances : StoreAnalysisConflict(i)
    \/ \E i \in Instances : CleanupChunks(i)
    \/ CancelSelect
    \/ \E episode \in cancelTodo : CancelAbort(episode)
    \/ \E episode \in cancelTodo : CancelAbortThrows(episode)
    \/ \E episode \in cancelTodo : CancelNoInstance(episode)
    \/ CancelReturn
    \/ \E e \in Episodes : ResetSegments(e)
    \/ ResetAnalysis
    \/ ResetEpisodeRow

SpecCtl == InitCtl /\ [][NextCtl]_vars

\* ------------------------------------------------------------------------
\* The chunk planner on its own: the slicing loop of 'chunk-audio' over
\* blobs of many sizes
\* ------------------------------------------------------------------------
PlanDeltas == {0, 1, 2, 1023, 1024, 65536, 524288, 1048575}

PlanSizes == {k * CHUNK_SIZE + d : k \in 0..MaxPlanChunks, d \in PlanDeltas}

InitPlan ==
    /\ AdminOff
    /\ InitStore
    /\ budget = [inst |-> 0, faults |-> 0, restarts |-> 0, admin |-> 0]
    /\ planSize \in PlanSizes
    /\ planOffset = 0
    /\ planChunks = <<>>
    /\ planPc = "loop"
    /\ MergeOff
    /\ SegOff
    /\ WeeklyOff

\* one iteration: offset < audioBuffer.byteLength
PlanSlice ==
    /\ planPc = "loop"
    /\ planOffset < planSize
    /\ planChunks' = Append(planChunks, SliceAt(planOffset, planSize))
    /\ planOffset' = planOffset + CHUNK_SIZE
    /\ UNCHANGED <<dbVars, blobVars, engineVars, cancelVars, resetVars,
                   budget, obs, adminVars, planSize, planPc, mergeVars, segVars, weeklyVars>>

\* return chunks
PlanReturn ==
    /\ planPc = "loop"
    /\ ~(planOffset < planSize)
    /\ planPc' = "done"
    /\ UNCHANGED <<dbVars, blobVars, engineVars, cancelVars, resetVars,
                   budget, obs, adminVars, planSize, planOffset, planChunks,
                   mergeVars, segVars, weeklyVars>>

NextPlan == PlanSlice \/ PlanReturn

SpecPlan == InitPlan /\ [][NextPlan]_vars

\* ------------------------------------------------------------------------
\* The transcription loop on its own: every chunk's word timestamps are
\* shifted by the durations of the chunks before it
\* ------------------------------------------------------------------------
DefaultDuration == 30      \* transcription_info?.duration || 30

MaxMergeChunks == 3        \* chunks of one episode in the loop

\* transcription_info.duration of a response, in seconds; 0 also stands
\* for a response that carries none
WhisperDurations == {0, 8, 10, 12}

\* the word tokens of one response, flattened over whisperResult.segments,
\* with timestamps relative to the start of the chunk
WhisperWordLists ==
    {<<>>,
     <<[punct |-> FALSE, start |-> 0, end |-> 1]>>,
     <<[punct |-> FALSE, start |-> 0, end |-> 1],
       [punct |-> TRUE, start |-> 2, end |-> 4]>>,
     <<[punct |-> TRUE, start |-> 3, end |-> 3]>>}

\* whisperResult.text, as the number of sentences the split of
\* 'store-transcript' finds in it: 0 is a blank text
WhisperTexts == {0, 1, 2}

\* a response with word tokens carries their text (one sentence here: the
\* text is not read on the word path)
WhisperResults ==
    {r \in [words : WhisperWordLists, text : WhisperTexts,
            duration : WhisperDurations] :
        r.words # <<>> => r.text = 1}

\* what the action of `transcribe-chunk-${i}` returns for a response
StepResult(whisperResult) ==
    [text |-> whisperResult.text,
     words |-> whisperResult.words,
     duration |-> IF whisperResult.duration = 0 THEN DefaultDuration
                  ELSE whisperResult.duration]

\* the word list pushed as it came
OffsetWordsRaw(words, offset) == words

\* result.words.map(w => ({ word, start: w.start + cumulativeOffset,
\*                          end: w.end + cumulativeOffset }))
OffsetWords(words, offset) ==
    [j \in 1..Len(words) |->
        [words[j] EXCEPT !.start = @ + offset, !.end = @ + offset]]

InitMerge ==
    /\ AdminOff
    /\ InitStore
    /\ PlanOff
    /\ SegOff
    /\ WeeklyOff
    /\ budget = [inst |-> 0, faults |-> 0, restarts |-> 0, admin |-> 0]
    /\ whisper \in UNION {[1..n -> WhisperResults] : n \in 0..MaxMergeChunks}
    /\ transcriptions = <<>>
    /\ cumulativeOffset = 0
    /\ mergePc = "loop"
    /\ storeSegs = <<>> /\ timeOffset = 0 /\ storeAt = 1

\* one iteration of for (let i = 0; i < chunkKeys.length; i++)
MergeChunk ==
    /\ mergePc = "loop"
    /\ Len(transcriptions) < Len(whisper)
    /\ LET result == StepResult(whisper[Len(transcriptions) + 1])
           offsetWords == OffsetWords(result.words, cumulativeOffset)
       IN /\ transcriptions' = Append(transcriptions,
                                      [text |-> result.text,
                                       words |-> offsetWords,
                                       duration |-> result.duration])
          /\ cumulativeOffset' = cumulativeOffset + result.duration
    /\ UNCHANGED <<dbVars, blobVars, engineVars, cancelVars, resetVars,
                   budget, obs, adminVars, planVars, whisper, mergePc,
                   storeSegs, timeOffset, storeAt, segVars, weeklyVars>>

\* the loop ends: i = chunkKeys.length
MergeDone ==
    /\ mergePc = "loop"
    /\ Len(transcriptions) = Len(whisper)
    /\ mergePc' = "done"
    /\ UNCHANGED <<dbVars, blobVars, engineVars, cancelVars, resetVars,
                   budget, obs, adminVars, planVars, whisper, transcriptions,
                   cumulativeOffset, storeSegs, timeOffset, storeAt, segVars,
                   weeklyVars>>

\* ------------------------------------------------------------------------
\* Step 4: 'store-transcript' on the merged transcriptions: the segments it
\* builds and inserts. Field chunk of a segment names the transcription a
\* fallback sentence came from (0 on the word path).
\* ------------------------------------------------------------------------
\* transcriptions.flatMap((t) => t.words)
RECURSIVE FlatWords(_)
FlatWords(ts) ==
    IF ts = <<>> THEN <<>> ELSE Head(ts).words \o FlatWords(Tail(ts))

\* startTime: currentWords[0].start, endTime: currentWords[last].end
TimedSegment(currentWords) ==
    [startTime |-> currentWords[1].start,
     endTime |-> currentWords[Len(currentWords)].end,
     words |-> Len(currentWords), chunk |-> 0]

\* sentences.length > 0 ? t.duration / sentences.length : t.duration
SentenceDuration(t) ==
    IF t.text > 0 THEN t.duration \div t.text ELSE t.duration

\* if (allWords.length > 0) segments = groupWordsIntoSegments(allWords, 15)
StorePrimary ==
    /\ mergePc = "done"
    /\ FlatWords(transcriptions) # <<>>
    /\ LET grouped == groupWordsIntoSegments(FlatWords(transcriptions),
                                             TargetWords)
       IN storeSegs' = [j \in 1..Len(grouped) |-> TimedSegment(grouped[j])]
    /\ mergePc' = "insert"
    /\ UNCHANGED <<dbVars, blobVars, engineVars, cancelVars, resetVars,
                   budget, obs, adminVars, planVars, whisper, transcriptions,
                   cumulativeOffset, timeOffset, storeAt, segVars,
                   weeklyVars>>

\* else branch, one iteration: if (!t.text.trim()) continue
StoreFallbackSkip ==
    /\ mergePc = "done"
    /\ FlatWords(transcriptions) = <<>>
    /\ storeAt <= Len(transcriptions)
    /\ transcriptions[storeAt].text = 0
    /\ storeAt' = storeAt + 1
    /\ UNCHANGED <<dbVars, blobVars, engineVars, cancelVars, resetVars,
                   budget, obs, adminVars, planVars, whisper, transcriptions,
                   cumulativeOffset, mergePc, storeSegs, timeOffset, segVars,
                   weeklyVars>>

\* else branch, one iteration over a chunk with text: one segment per
\* sentence from timeOffset on, timeOffset += sentenceDuration
StoreFallbackChunk ==
    /\ mergePc = "done"
    /\ FlatWords(transcriptions) = <<>>
    /\ storeAt <= Len(transcriptions)
    /\ transcriptions[storeAt].text > 0
    /\ LET t == transcriptions[storeAt]
           sentenceDuration == SentenceDuration(t)
       IN /\ storeSegs' = storeSegs \o
                [j \in 1..t.text |->
                    [startTime |-> timeOffset + (j - 1) * sentenceDuration,
                     endTime |-> timeOffset + j * sentenceDuration,
                     words |-> 0, chunk |-> storeAt]]
          /\ timeOffset' = timeOffset + t.text * sentenceDuration
    /\ storeAt' = storeAt + 1
    /\ UNCHANGED <<dbVars, blobVars, engineVars, cancelVars, resetVars,
                   budget, obs, adminVars, planVars, whisper, transcriptions,
                   cumulativeOffset, mergePc, segVars, weeklyVars>>

\* the fallback loop ends
StoreFallbackEnd ==
    /\ mergePc = "done"
    /\ FlatWords(transcriptions) = <<>>
    /\ storeAt > Len(transcriptions)
    /\ mergePc' = "insert"
    /\ UNCHANGED <<dbVars, blobVars, engineVars, cancelVars, resetVars,
                   budget, obs, adminVars, planVars, whisper, transcriptions,
                   cumulativeOffset, storeSegs, timeOffset, storeAt, segVars,
                   weeklyVars>>

\* for (let i = 0; i < segments.length; i++) insert { segmentIndex: i,
\* startTime, endTime, ... }
StoreInsert ==
    /\ mergePc = "insert"
    /\ storeSegs' = [j \in 1..Len(storeSegs) |->
                        [segmentIndex |-> j - 1,
                         startTime |-> storeSegs[j].startTime,
                         endTime |-> storeSegs[j].endTime,
                         words |-> storeSegs[j].words,
                         chunk |-> storeSegs[j].chunk]]
    /\ mergePc' = "stored"
    /\ UNCHANGED <<dbVars, blobVars, engineVars, cancelVars, resetVars,
                   budget, obs, adminVars, planVars, whisper, transcriptions,
                   cumulativeOffset, timeOffset, storeAt, segVars,
                   weeklyVars>>

NextMerge ==
    \/ MergeChunk
    \/ MergeDone
    \/ StorePrimary
    \/ StoreFallbackSkip
    \/ StoreFallbackChunk
    \/ StoreFallbackEnd
    \/ StoreInsert

SpecMerge == InitMerge /\ [][NextMerge]_vars

\* ------------------------------------------------------------------------
\* The Segmenter on its own: groupWordsIntoSegments over word lists
\* ------------------------------------------------------------------------
MaxSegWords == 16          \* longest word list given to the Segmenter

\* targetWordsPerSegment: the pipeline's 15 and smaller positive targets
SegTargets == {1, 3, 6, TargetWords}

\* word lists long enough to fill a segment of the target and go on
SegLengths(target) == 0..Min(MaxSegWords, target + 6)

\* word k of a list: it starts at k - 1 and ends at k, punct tells whether
\* its text ends with . ! or ?
SegWordLists(n) ==
    {[k \in 1..n |-> [punct |-> f[k], start |-> k - 1, end |-> k]] :
        f \in [1..n -> BOOLEAN]}

InitSeg ==
    /\ AdminOff
    /\ InitStore
    /\ PlanOff
    /\ MergeOff
    /\ WeeklyOff
    /\ budget = [inst |-> 0, faults |-> 0, restarts |-> 0, admin |-> 0]
    /\ segTarget \in SegTargets
    /\ \E n \in SegLengths(segTarget) : segWords \in SegWordLists(n)
    /\ segOut = <<>>
    /\ segPc = "call"

\* segments = groupWordsIntoSegments(words, targetWordsPerSegment)
SegmentCall ==
    /\ segPc = "call"
    /\ segOut' = groupWordsIntoSegments(segWords, segTarget)
    /\ segPc' = "done"
    /\ UNCHANGED <<dbVars, blobVars, engineVars, cancelVars, resetVars,
                   budget, obs, adminVars, planVars, mergeVars, segWords, segTarget,
                   weeklyVars>>

NextSeg == SegmentCall

SpecSeg == InitSeg /\ [][NextSeg]_vars

\* ------------------------------------------------------------------------
\* generateWeeklyAnalysis (src/src/lib/server-fns.ts) over stored episodes
\* ------------------------------------------------------------------------
\* Times are whole seconds, as the columns of mode 'timestamp' hold them.
WeekSeconds == 7 * 24 * 60 * 60    \* weekEnd.getTime() - 7 * 24 * 60 * 60 * 1000

MaxWeeklyCalls == 3        \* calls of generateWeeklyAnalysis over a behaviour
WeeklyFaults == 1          \* text-generation calls that reject
MaxTicks == 3              \* steps of the clock

ClockStep == 12 * 60 * 60  \* the clock moves by half a day
Now0 == 10 * 24 * 60 * 60  \* the clock at the start

\* publish times around both ends of the first call's window
PublishTimes == {Now0 - WeekSeconds - 1, Now0 - WeekSeconds, Now0 - 1,
                 Now0, Now0 + 1}

\* status and number of analysis rows an episode can be left with by the
\* pipeline, cancelAllJobs and resetEpisode
EpisodeStates == {<<"pending", 0>>, <<"analyzing", 0>>, <<"complete", 1>>,
                  <<"complete", 0>>, <<"pending", 1>>}

InitWeekly ==
    /\ AdminOff
    /\ \E st \in [Episodes -> EpisodeStates] :
          /\ status = [e \in Episodes |-> st[e][1]]
          /\ analyses = [e \in Episodes |-> st[e][2]]
    /\ workflowId = [e \in Episodes |-> Null]
    /\ errorMessage = [e \in Episodes |-> "null"]
    /\ r2Key = [e \in Episodes |-> FALSE]
    /\ segments = [e \in Episodes |-> <<>>]
    /\ audio = [e \in Episodes |-> FALSE]
    /\ chunkObjs = [e \in Episodes |-> {}]
    /\ run = [i \in Instances |-> NoRun]
    /\ nInst = 0
    /\ trig = {}
    /\ cancelPc = "idle" /\ cancelFound = {} /\ cancelTodo = {}
    /\ cancelledCount = 0 /\ cancelResult = 0
    /\ resetPc = "idle" /\ resetTarget = "e1" /\ resetAlone = FALSE
    /\ obs = [i \in Instances |-> NoObs]
    /\ PlanOff
    /\ MergeOff
    /\ SegOff
    /\ budget = [inst |-> 0, faults |-> WeeklyFaults, restarts |-> 0,
                 admin |-> MaxWeeklyCalls]
    /\ publishedAt \in [Episodes -> PublishTimes]
    /\ now = Now0
    /\ weeklyRows = <<>>
    /\ weeklyPc = "idle" /\ weeklyForce = FALSE /\ weeklyEnd = 0
    /\ weeklyRecent = {} /\ weeklyResult = NoWeeklyResult
    /\ weeklyAiCalls = 0

\* the query without its status condition
RecentAnalysesAnyStatus(weekStart, weekEnd) ==
    {e \in Episodes : /\ analyses[e] > 0
                      /\ publishedAt[e] >= weekStart
                      /\ publishedAt[e] <= weekEnd}

\* episodeAnalyses inner join episodes where publishedAt >= weekStart and
\* publishedAt <= weekEnd and status = 'complete'
RecentAnalyses(weekStart, weekEnd) ==
    {e \in Episodes : /\ analyses[e] > 0
                      /\ publishedAt[e] >= weekStart
                      /\ publishedAt[e] <= weekEnd
                      /\ status[e] = "complete"}

\* the handler going on whatever the query returned
NothingToAnalyzeNever(recentAnalyses) == FALSE

\* if (recentAnalyses.length === 0) throw new Error('No completed ...')
NothingToAnalyze(recentAnalyses) == recentAnalyses = {}

\* the call arrives; weekEnd = new Date(), the query, the empty test. The
\* handler declares no input: what the caller sends as force is not read
WeeklySelect(force) ==
    /\ weeklyPc = "idle"
    /\ budget.admin > 0
    /\ budget' = [budget EXCEPT !.admin = @ - 1]
    /\ weeklyForce' = force
    /\ weeklyEnd' = now
    /\ LET recentAnalyses == RecentAnalyses(now - WeekSeconds, now)
       IN /\ weeklyRecent' = recentAnalyses
          /\ IF NothingToAnalyze(recentAnalyses)
             THEN /\ weeklyPc' = "idle"
                  /\ weeklyResult' = [NoWeeklyResult EXCEPT
                                         !.kind = "nothing"]
             ELSE /\ weeklyPc' = "ai"
                  /\ weeklyResult' = NoWeeklyResult
    /\ UNCHANGED <<dbVars, blobVars, engineVars, cancelVars, resetVars, obs, adminVars,
                   planVars, mergeVars, segVars, publishedAt, now,
                   weeklyRows, weeklyAiCalls>>

\* AI.run('@cf/zai-org/glm-4.7-flash', ...) returns
WeeklyAiOk ==
    /\ weeklyPc = "ai"
    /\ weeklyAiCalls' = weeklyAiCalls + 1
    /\ weeklyPc' = "insert"
    /\ UNCHANGED <<dbVars, blobVars, engineVars, cancelVars, resetVars,
                   budget, obs, adminVars, planVars, mergeVars, segVars, publishedAt,
                   now, weeklyRows, weeklyForce, weeklyEnd, weeklyRecent,
                   weeklyResult>>

\* AI.run rejects: nothing catches it, the call fails
WeeklyAiFail ==
    /\ weeklyPc = "ai"
    /\ budget.faults > 0
    /\ budget' = [budget EXCEPT !.faults = @ - 1]
    /\ weeklyAiCalls' = weeklyAiCalls + 1
    /\ weeklyPc' = "idle"
    /\ weeklyResult' = [NoWeeklyResult EXCEPT !.kind = "error"]
    /\ UNCHANGED <<dbVars, blobVars, engineVars, cancelVars, resetVars, obs, adminVars,
                   planVars, mergeVars, segVars, publishedAt, now,
                   weeklyRows, weeklyForce, weeklyEnd, weeklyRecent>>

\* insert into weekly_analyses, return { id, ..., episodeCount }
WeeklyInsert ==
    /\ weeklyPc = "insert"
    /\ weeklyRows' = Append(weeklyRows,
                            [id |-> Len(weeklyRows) + 1,
                             weekStart |-> weeklyEnd - WeekSeconds,
                             weekEnd |-> weeklyEnd,
                             episodeIds |-> weeklyRecent,
                             createdAt |-> now])
    /\ weeklyResult' = [kind |-> "ok", id |-> Len(weeklyRows) + 1,
                        episodeCount |-> Cardinality(weeklyRecent)]
    /\ weeklyPc' = "idle"
    /\ UNCHANGED <<dbVars, blobVars, engineVars, cancelVars, resetVars,
                   budget, obs, adminVars, planVars, mergeVars, segVars, publishedAt,
                   now, weeklyForce, weeklyEnd, weeklyRecent, weeklyAiCalls>>

\* time passes
Tick ==
    /\ now < Now0 + MaxTicks * ClockStep
    /\ now' = now + ClockStep
    /\ UNCHANGED <<dbVars, blobVars, engineVars, cancelVars, resetVars,
                   budget, obs, adminVars, planVars, mergeVars, segVars, publishedAt,
                   weeklyRows, weeklyPc, weeklyForce, weeklyEnd,
                   weeklyRecent, weeklyResult, weeklyAiCalls>>

NextWeekly ==
    \/ \E force \in BOOLEAN : WeeklySelect(force)
    \/ WeeklyAiOk
    \/ WeeklyAiFail
    \/ WeeklyInsert
    \/ Tick

SpecWeekly == InitWeekly /\ [][NextWeekly]_vars

\* ------------------------------------------------------------------------
\* importPastEpisodes on its own: one podcast, its feed and the guids of
\* its stored episodes
\* ------------------------------------------------------------------------
MaxFeedItems == 6          \* items in the feed
MaxImportCalls == 2        \* calls of importPastEpisodes over a behaviour

ImportLimit == 5           \* .slice(0, 5)
AddedAt == 10              \* podcast.addedAt

\* publish times on both sides of the time the podcast was added
FeedTimes == {AddedAt - 2, AddedAt - 1, AddedAt, AddedAt + 1}

\* feed.items in document order; the guid of an item is its position
Feeds ==
    UNION {{[k \in 1..n |-> [guid |-> k, publishedAt |-> t[k]]] :
               t \in [1..n -> FeedTimes]} : n \in 0..MaxFeedItems}

\* the place item k takes under sort((a, b) => b.publishedAt - a.publishedAt):
\* later items first, items of one time in their feed order
SortRank(items, k) ==
    Cardinality({j \in 1..Len(items) :
                    \/ items[j].publishedAt > items[k].publishedAt
                    \/ /\ items[j].publishedAt = items[k].publishedAt
                       /\ j < k}) + 1

SortByDateDesc(items) ==
    [r \in 1..Len(items) |->
        items[CHOOSE k \in 1..Len(items) : SortRank(items, k) = r]]

\* [...feed.items].sort(...).slice(0, 5)
SortedItems(items) ==
    SubSeq(SortByDateDesc(items), 1, Min(ImportLimit, Len(items)))

InitImport ==
    /\ ParseOff
    /\ PollOff
    /\ InitStore
    /\ PlanOff
    /\ MergeOff
    /\ SegOff
    /\ WeeklyOff
    /\ RemoveOff
    /\ budget = [inst |-> 0, faults |-> 0, restarts |-> 0,
                 admin |-> MaxImportCalls]
    /\ feed \in Feeds
    /\ guids = {}
    /\ importPc = "idle" /\ importTodo = <<>> /\ importCreated = <<>>
    /\ importedCount = 0

\* the call arrives: the podcast is found, the feed is parsed, sorted and cut
ImportSelect ==
    /\ importPc \in {"idle", "done"}
    /\ budget.admin > 0
    /\ budget' = [budget EXCEPT !.admin = @ - 1]
    /\ importTodo' = SortedItems(feed)
    /\ importCreated' = <<>>
    /\ importedCount' = 0
    /\ importPc' = "loop"
    /\ UNCHANGED <<dbVars, blobVars, engineVars, cancelVars, resetVars, obs,
                   planVars, mergeVars, segVars, weeklyVars, parseVars, pollVars, removeVars,
                   feed, guids>>

\* if (item.publishedAt >= podcast.addedAt) continue
ImportSkipNew ==
    /\ importPc = "loop" /\ importTodo # <<>>
    /\ Head(importTodo).publishedAt >= AddedAt
    /\ importTodo' = Tail(importTodo)
    /\ UNCHANGED <<dbVars, blobVars, engineVars, cancelVars, resetVars,
                   budget, obs, planVars, mergeVars, segVars, weeklyVars, parseVars, pollVars,
                   removeVars, feed, guids, importPc, importCreated,
                   importedCount>>

\* if (existing.length > 0) continue
ImportSkipExisting ==
    /\ importPc = "loop" /\ importTodo # <<>>
    /\ Head(importTodo).publishedAt < AddedAt
    /\ Head(importTodo).guid \in guids
    /\ importTodo' = Tail(importTodo)
    /\ UNCHANGED <<dbVars, blobVars, engineVars, cancelVars, resetVars,
                   budget, obs, planVars, mergeVars, segVars, weeklyVars, parseVars, pollVars,
                   removeVars, feed, guids, importPc, importCreated,
                   importedCount>>

\* db.insert(episodes).values({ ..., status: 'pending' }); importedCount++
ImportInsert ==
    /\ importPc = "loop" /\ importTodo # <<>>
    /\ Head(importTodo).publishedAt < AddedAt
    /\ Head(importTodo).guid \notin guids
    /\ guids' = guids \cup {Head(importTodo).guid}
    /\ importCreated' = Append(importCreated,
                               [guid |-> Head(importTodo).guid,
                                publishedAt |-> Head(importTodo).publishedAt,
                                status |-> "pending"])
    /\ importedCount' = importedCount + 1
    /\ importTodo' = Tail(importTodo)
    /\ UNCHANGED <<dbVars, blobVars, engineVars, cancelVars, resetVars,
                   budget, obs, planVars, mergeVars, segVars, weeklyVars, parseVars, pollVars,
                   removeVars, feed, importPc>>

\* return { importedCount }
ImportReturn ==
    /\ importPc = "loop" /\ importTodo = <<>>
    /\ importPc' = "done"
    /\ UNCHANGED <<dbVars, blobVars, engineVars, cancelVars, resetVars,
                   budget, obs, planVars, mergeVars, segVars, weeklyVars, parseVars, pollVars,
                   removeVars, feed, guids, importTodo, importCreated,
                   importedCount>>

NextImport ==
    \/ ImportSelect
    \/ ImportSkipNew
    \/ ImportSkipExisting
    \/ ImportInsert
    \/ ImportReturn

SpecImport == InitImport /\ [][NextImport]_vars

\* ------------------------------------------------------------------------
\* removePodcast: every episode of the model belongs to the one podcast.
\* The handler is called when no run is in progress, and no run is started
\* once it has been called; AUDIO_BUCKET.delete does not throw.
\* ------------------------------------------------------------------------
RemoveFaults == 3          \* external calls that fail before the removal

InitRemove ==
    /\ ParseOff
    /\ PollOff
    /\ InitStore
    /\ PlanOff
    /\ MergeOff
    /\ SegOff
    /\ WeeklyOff
    /\ ImportOff
    /\ budget = [inst |-> 1, faults |-> RemoveFaults, restarts |-> 0,
                 admin |-> 1]
    /\ rows = Episodes
    /\ removePc = "idle" /\ removeFound = {} /\ removeTodo = {}
    /\ isDemo \in BOOLEAN

\* select id, r2Key from episodes where podcastId = data.podcastId
RemoveSelect ==
    /\ removePc = "idle"
    /\ budget.admin > 0
    /\ budget' = [budget EXCEPT !.admin = @ - 1]
    /\ removeFound' = {[id |-> e, r2Key |-> r2Key[e]] : e \in rows}
    /\ removeTodo' = {[id |-> e, r2Key |-> r2Key[e]] : e \in rows}
    /\ removePc' = "blobs"
    /\ UNCHANGED <<dbVars, blobVars, engineVars, cancelVars, resetVars, obs,
                   planVars, mergeVars, segVars, weeklyVars, parseVars, pollVars, importVars,
                   rows, isDemo>>

\* if (episode.r2Key) AUDIO_BUCKET.delete(episode.r2Key)
RemoveBlob(episode) ==
    /\ removePc = "blobs" /\ episode \in removeTodo
    /\ episode.r2Key
    /\ audio' = [audio EXCEPT ![episode.id] = FALSE]
    /\ removeTodo' = removeTodo \ {episode}
    /\ UNCHANGED <<dbVars, chunkObjs, engineVars, cancelVars, resetVars,
                   budget, obs, planVars, mergeVars, segVars, weeklyVars, parseVars, pollVars,
                   importVars, rows, removePc, removeFound, isDemo>>

\* if (episode.r2Key) is false: no key is recorded, nothing is deleted
RemoveBlobSkip(episode) ==
    /\ removePc = "blobs" /\ episode \in removeTodo
    /\ ~episode.r2Key
    /\ removeTodo' = removeTodo \ {episode}
    /\ UNCHANGED <<dbVars, blobVars, engineVars, cancelVars, resetVars,
                   budget, obs, planVars, mergeVars, segVars, weeklyVars, parseVars, pollVars,
                   importVars, rows, removePc, removeFound, isDemo>>

\* delete from transcript_segments where episodeId IN (episodeIds)
RemoveSegments ==
    /\ removePc = "blobs" /\ removeTodo = {}
    /\ removeFound # {}
    /\ segments' = [e \in Episodes |->
                      IF e \in {f.id : f \in removeFound} THEN <<>>
                      ELSE segments[e]]
    /\ removePc' = "analyses"
    /\ UNCHANGED <<status, workflowId, errorMessage, r2Key, analyses,
                   blobVars, engineVars, cancelVars, resetVars, budget, obs,
                   planVars, mergeVars, segVars, weeklyVars, parseVars, pollVars, importVars,
                   rows, removeFound, removeTodo, isDemo>>

\* delete from episode_analyses where episodeId IN (episodeIds)
RemoveAnalyses ==
    /\ removePc = "analyses"
    /\ analyses' = [e \in Episodes |->
                      IF e \in {f.id : f \in removeFound} THEN 0
                      ELSE analyses[e]]
    /\ removePc' = "episodes"
    /\ UNCHANGED <<status, workflowId, errorMessage, r2Key, segments,
                   blobVars, engineVars, cancelVars, resetVars, budget, obs,
                   planVars, mergeVars, segVars, weeklyVars, parseVars, pollVars, importVars,
                   rows, removeFound, removeTodo, isDemo>>

\* delete from episodes where podcastId = data.podcastId
RemoveEpisodes ==
    /\ removePc = "episodes"
    /\ rows' = {}
    /\ removePc' = "podcast"
    /\ UNCHANGED <<dbVars, blobVars, engineVars, cancelVars, resetVars,
                   budget, obs, planVars, mergeVars, segVars, weeklyVars, parseVars, pollVars,
                   importVars, removeFound, removeTodo, isDemo>>

\* delete from podcasts where id = data.podcastId; return { success: true }
RemovePodcastRow ==
    /\ removePc = "podcast"
    /\ removePc' = "done"
    /\ UNCHANGED <<dbVars, blobVars, engineVars, cancelVars, resetVars,
                   budget, obs, planVars, mergeVars, segVars, weeklyVars, parseVars, pollVars,
                   importVars, rows, removeFound, removeTodo, isDemo>>

NextRemove ==
    \/ \E e \in Episodes : removePc = "idle" /\ TriggerCreate(e)
    \/ \E i \in Instances : TriggerRecord(i)
    \/ \E i \in Instances : DownloadBegin(i)
    \/ \E i \in Instances : DownloadFetchOk(i)
    \/ \E i \in Instances : DownloadPutOk(i)
    \/ \E i \in Instances : ChunkLoad(i)
    \/ \E i \in Instances : ChunkStore(i)
    \/ \E i \in Instances : UpdateStatusTranscribing(i)
    \/ \E i \in Instances, c \in ChunkIdx : TranscribeBegin(i, c)
    \/ \E i \in Instances, c \in ChunkIdx : TranscribeFail(i, c)
    \/ \E i \in Instances, c \in ChunkIdx : TranscribeOk(i, c, "words")
    \/ \E i \in Instances : StoreTranscript(i)
    \/ \E i \in Instances : UpdateStatusAnalyzing(i)
    \/ \E i \in Instances : AnalyzeBegin(i)
    \/ \E i \in Instances : AnalyzeFail(i)
    \/ \E i \in Instances : AnalyzeOk(i, PlainJson)
    \/ \E i \in Instances : StoreAnalysis(i)
    \/ \E i \in Instances : CleanupChunks(i)
    \/ (\A e \in Episodes : ~Live(e)) /\ RemoveSelect
    \/ \E episode \in removeTodo : RemoveBlob(episode)
    \/ \E episode \in removeTodo : RemoveBlobSkip(episode)
    \/ RemoveSegments
    \/ RemoveAnalyses
    \/ RemoveEpisodes
    \/ RemovePodcastRow

SpecRemove == InitRemove /\ [][NextRemove]_vars

\* ------------------------------------------------------------------------
\* resetEpisode on an episode that is being processed: one trigger, and one
\* reset, asked for while a run of the episode is live (the admin page
\* offers Reset on downloading, transcribing and analyzing episodes).
\* ------------------------------------------------------------------------
InitReset ==
    /\ AdminOff
    /\ InitStore
    /\ PlanOff
    /\ MergeOff
    /\ SegOff
    /\ WeeklyOff
    /\ budget = [inst |-> 1, faults |-> 0, restarts |-> 0, admin |-> 1]

NextReset ==
    \/ \E e \in Episodes : TriggerCreate(e)
    \/ \E i \in Instances : TriggerRecord(i)
    \/ \E i \in Instances : DownloadBegin(i)
    \/ \E i \in Instances : DownloadFetchOk(i)
    \/ \E i \in Instances : DownloadPutOk(i)
    \/ \E i \in Instances : ChunkLoad(i)
    \/ \E i \in Instances : ChunkStore(i)
    \/ \E i \in Instances : UpdateStatusTranscribing(i)
    \/ \E i \in Instances, c \in ChunkIdx : TranscribeBegin(i, c)
    \/ \E i \in Instances, c \in ChunkIdx : TranscribeOk(i, c, "words")
    \/ \E i \in Instances : StoreTranscript(i)
    \/ \E i \in Instances : UpdateStatusAnalyzing(i)
    \/ \E i \in Instances : AnalyzeBegin(i)
    \/ \E i \in Instances : AnalyzeOk(i, PlainJson)
    \/ \E i \in Instances : StoreAnalysis(i)
    \/ \E i \in Instances : CleanupChunks(i)
    \/ \E e \in Episodes : Live(e) /\ ResetSegments(e)
    \/ ResetAnalysis
    \/ ResetEpisodeRow

SpecReset == InitReset /\ [][NextReset]_vars

\* ------------------------------------------------------------------------
\* pollAllFeeds: the scheduled handler and triggerPoll each call it, as
\* separate invocations over the same database.  One active podcast; the
\* guid of a feed item is its position in the feed.
\* ------------------------------------------------------------------------
MaxPollItems == 2          \* items of the polled feed

Pollers == {"scheduled", "manual"}

PollFeeds ==
    UNION {{[k \in 1..n |-> [guid |-> k, publishedAt |-> t[k]]] :
               t \in [1..n -> FeedTimes]} : n \in 1..MaxPollItems}

InitPoll ==
    /\ InitStore
    /\ PlanOff
    /\ MergeOff
    /\ SegOff
    /\ WeeklyOff
    /\ RemoveOff
    /\ ParseOff
    /\ budget = [inst |-> 0, faults |-> 0, restarts |-> 0, admin |-> 0]
    /\ feed \in PollFeeds
    /\ guids = {}
    /\ importPc = "off" /\ importTodo = <<>> /\ importCreated = <<>>
    /\ importedCount = 0
    /\ pollPc = [p \in Pollers |-> "idle"]
    /\ pollItem = [p \in Pollers |-> 1]
    /\ pollRows = <<>>
    /\ pollInsts = <<>>

\* the rows select ... where podcastId = podcast.id and guid = item.guid finds
ExistingRows(guid) == {k \in 1..Len(pollRows) : pollRows[k].guid = guid}

\* const feed = await parseFeed(podcast.feedUrl)
PollParse(p) ==
    /\ pollPc[p] = "idle"
    /\ pollPc' = [pollPc EXCEPT ![p] = "loop"]
    /\ UNCHANGED <<dbVars, blobVars, engineVars, cancelVars, resetVars,
                   budget, obs, planVars, mergeVars, segVars, weeklyVars,
                   importVars, removeVars, parseVars, pollItem, pollRows,
                   pollInsts>>

\* if (item.publishedAt < podcast.addedAt) continue
PollSkipOld(p) ==
    /\ pollPc[p] = "loop" /\ pollItem[p] <= Len(feed)
    /\ feed[pollItem[p]].publishedAt < AddedAt
    /\ pollItem' = [pollItem EXCEPT ![p] = @ + 1]
    /\ UNCHANGED <<dbVars, blobVars, engineVars, cancelVars, resetVars,
                   budget, obs, planVars, mergeVars, segVars, weeklyVars,
                   importVars, removeVars, parseVars, pollPc, pollRows,
                   pollInsts>>

\* the select finds a row: if (existing.length > 0) continue
PollSkipExisting(p) ==
    /\ pollPc[p] = "loop" /\ pollItem[p] <= Len(feed)
    /\ feed[pollItem[p]].publishedAt >= AddedAt
    /\ ExistingRows(feed[pollItem[p]].guid) # {}
    /\ pollItem' = [pollItem EXCEPT ![p] = @ + 1]
    /\ UNCHANGED <<dbVars, blobVars, engineVars, cancelVars, resetVars,
                   budget, obs, planVars, mergeVars, segVars, weeklyVars,
                   importVars, removeVars, parseVars, pollPc, pollRows,
                   pollInsts>>

\* the select finds no row: the invocation goes on to the insert
PollSelectNone(p) ==
    /\ pollPc[p] = "loop" /\ pollItem[p] <= Len(feed)
    /\ feed[pollItem[p]].publishedAt >= AddedAt
    /\ ExistingRows(feed[pollItem[p]].guid) = {}
    /\ pollPc' = [pollPc EXCEPT ![p] = "insert"]
    /\ UNCHANGED <<dbVars, blobVars, engineVars, cancelVars, resetVars,
                   budget, obs, planVars, mergeVars, segVars, weeklyVars,
                   importVars, removeVars, parseVars, pollItem, pollRows,
                   pollInsts>>

\* db.insert(episodes).values({ id: episodeId, guid, status: 'pending' })
PollInsert(p) ==
    /\ pollPc[p] = "insert"
    /\ pollRows' = Append(pollRows, [guid |-> feed[pollItem[p]].guid,
                                     by |-> p, status |-> "pending",
                                     workflowId |-> Null])
    /\ pollPc' = [pollPc EXCEPT ![p] = "create"]
    /\ UNCHANGED <<dbVars, blobVars, engineVars, cancelVars, resetVars,
                   budget, obs, planVars, mergeVars, segVars, weeklyVars,
                   importVars, removeVars, parseVars, pollItem, pollInsts>>

\* env.EPISODE_WORKFLOW.create({ params: { episodeId, ... } })
PollCreate(p) ==
    /\ pollPc[p] = "create"
    /\ pollInsts' = Append(pollInsts, [guid |-> feed[pollItem[p]].guid,
                                       by |-> p])
    /\ pollPc' = [pollPc EXCEPT ![p] = "record"]
    /\ UNCHANGED <<dbVars, blobVars, engineVars, cancelVars, resetVars,
                   budget, obs, planVars, mergeVars, segVars, weeklyVars,
                   importVars, removeVars, parseVars, pollItem, pollRows>>

\* update episodes set workflowId = instance.id, status = 'downloading'
\* where id = episodeId; the loop goes to the next item
PollRecord(p) ==
    /\ pollPc[p] = "record"
    /\ LET guid == feed[pollItem[p]].guid
           mine == CHOOSE k \in 1..Len(pollRows) :
                      pollRows[k].guid = guid /\ pollRows[k].by = p
           id == CHOOSE k \in 1..Len(pollInsts) :
                    pollInsts[k].guid = guid /\ pollInsts[k].by = p
       IN pollRows' = [pollRows EXCEPT ![mine] =
                          [@ EXCEPT !.workflowId = id,
                                    !.status = "downloading"]]
    /\ pollItem' = [pollItem EXCEPT ![p] = @ + 1]
    /\ pollPc' = [pollPc EXCEPT ![p] = "loop"]
    /\ UNCHANGED <<dbVars, blobVars, engineVars, cancelVars, resetVars,
                   budget, obs, planVars, mergeVars, segVars, weeklyVars,
                   importVars, removeVars, parseVars, pollInsts>>

\* the item loop ends: update podcasts set lastPolledAt
PollDone(p) ==
    /\ pollPc[p] = "loop" /\ pollItem[p] > Len(feed)
    /\ pollPc' = [pollPc EXCEPT ![p] = "done"]
    /\ UNCHANGED <<dbVars, blobVars, engineVars, cancelVars, resetVars,
                   budget, obs, planVars, mergeVars, segVars, weeklyVars,
                   importVars, removeVars, parseVars, pollItem, pollRows,
                   pollInsts>>

NextPoll ==
    \/ \E p \in Pollers : PollParse(p)
    \/ \E p \in Pollers : PollSkipOld(p)
    \/ \E p \in Pollers : PollSkipExisting(p)
    \/ \E p \in Pollers : PollSelectNone(p)
    \/ \E p \in Pollers : PollInsert(p)
    \/ \E p \in Pollers : PollCreate(p)
    \/ \E p \in Pollers : PollRecord(p)
    \/ \E p \in Pollers : PollDone(p)

SpecPoll == InitPoll /\ [][NextPoll]_vars

\* ------------------------------------------------------------------------
\* parseWeeklyAnalysis on its own.  A response is a sequence of tokens:
\* "a" a character of prose, "sp" a whitespace character, "open" the text
\* <topics>, "close" the text </topics>, "arr" the text of a JSON array,
\* "obj" the text of a JSON value that is not an array.
\* ------------------------------------------------------------------------
MaxResponseLen == 5        \* tokens of a response

ParseTokens == {"a", "sp", "open", "close", "arr", "obj"}

Responses == UNION {[1..n -> ParseTokens] : n \in 0..MaxResponseLen}

\* /<topics>(.*?)<\/topics>/s : the leftmost <topics> that has a </topics>
\* after it (0 when there is none) ...
MatchStart(response) ==
    LET S == {i \in 1..Len(response) :
                /\ response[i] = "open"
                /\ \E j \in (i + 1)..Len(response) : response[j] = "close"}
    IN IF S = {} THEN 0 ELSE CHOOSE i \in S : \A k \in S : i <= k

\* ... and, the group being lazy, the first </topics> after it
MatchEnd(response) ==
    LET S == {j \in (MatchStart(response) + 1)..Len(response) :
                response[j] = "close"}
    IN CHOOSE j \in S : \A k \in S : j <= k

\* String.prototype.trim
RECURSIVE Trim(_)
Trim(s) ==
    IF s = <<>> THEN s
    ELSE IF Head(s) = "sp" THEN Trim(Tail(s))
    ELSE IF s[Len(s)] = "sp" THEN Trim(SubSeq(s, 1, Len(s) - 1))
    ELSE s

\* JSON.parse: one value with whitespace around it, anything else throws
JsonParse(text) ==
    LET t == Trim(text)
    IN IF Len(t) = 1 /\ t[1] \in {"arr", "obj"} THEN t[1] ELSE "throws"

parseWeeklyAnalysis(response) ==
    LET topicsMatch == MatchStart(response)
    IN IF topicsMatch = 0
       THEN [analysis |-> response, trendingTopics |-> "empty"]
       ELSE LET group == SubSeq(response, topicsMatch + 1,
                                MatchEnd(response) - 1)
                parsed == JsonParse(group)
            IN [analysis |->
                    Trim(SubSeq(response, 1, topicsMatch - 1)
                         \o SubSeq(response, MatchEnd(response) + 1,
                                   Len(response))),
                trendingTopics |->
                    IF parsed = "throws" THEN "empty" ELSE parsed]

InitParse ==
    /\ InitStore
    /\ PlanOff
    /\ MergeOff
    /\ SegOff
    /\ WeeklyOff
    /\ ImportOff
    /\ RemoveOff
    /\ PollOff
    /\ budget = [inst |-> 0, faults |-> 0, restarts |-> 0, admin |-> 0]
    /\ weeklyResponse \in Responses
    /\ weeklyParsed = NoParsed
    /\ parsePc = "call"

ParseReturn ==
    /\ parsePc = "call"
    /\ weeklyParsed' = parseWeeklyAnalysis(weeklyResponse)
    /\ parsePc' = "returned"
    /\ UNCHANGED <<dbVars, blobVars, engineVars, cancelVars, resetVars,
                   budget, obs, planVars, mergeVars, segVars, weeklyVars,
                   importVars, removeVars, pollVars, weeklyResponse>>

NextParse == ParseReturn

SpecParse == InitParse /\ [][NextParse]_vars

\* ------------------------------------------------------------------------
\* Audio bytes a run holds in memory
\* ------------------------------------------------------------------------
RECURSIVE SumBytes(_, _)
SumBytes(e, cs) ==
    IF cs = {} THEN 0
    ELSE LET c == CHOOSE x \in cs : TRUE
         IN ChunkBytes(e, c) + SumBytes(e, cs \ {c})

\* object.arrayBuffer() in 'chunk-audio' holds the whole blob; each
\* transcription in flight holds chunkObj.arrayBuffer(); the download
\* streams response.body into the put
MemHeld(i) ==
    IF run[i].pc = "chunk-audio" /\ run[i].phase = "loaded"
    THEN AudioSize(run[i].ep)
    ELSE SumBytes(run[i].ep, run[i].stt)

\* ------------------------------------------------------------------------
\* Properties
\* ------------------------------------------------------------------------

\* C1: a trigger for an episode that has a recorded instance id and is in
\* progress is rejected: no instance is created for that episode.
C1NoSecondInstance ==
    [][\A e \in Episodes :
          (workflowId[e] # Null /\ status[e] \in InProgressStatuses
             /\ nInst' # nInst)
          => run'[nInst'].ep # e]_vars

\* C2: when a step's failure leaves run() the episode's status becomes error
\* and the error message is stored.
C2ErrorStatus ==
    [][\A i \in Instances :
          (run[i].state = "running" /\ run'[i].state = "errored")
          => /\ status'[run[i].ep] = "error"
             /\ errorMessage'[run[i].ep] # "null"]_vars

AttemptsOnFailure(key) ==
    CASE key[1] = "download-audio" -> 4
      [] key[1] = "transcribe-chunk" -> 3
      [] key[1] = "analyze-transcript" -> 3

\* C4: no step's action is invoked more than maxRetries + 1 times in a run,
\* and when a failure leaves run() at a step, that step's action has been
\* invoked exactly maxRetries + 1 times.
C4Attempts ==
    \A i \in Instances :
        /\ \A key \in PolicyKeys : obs[i].inv[key] <= AttemptsOnFailure(key)
        /\ run[i].state = "errored"
              => obs[i].inv[StepKey(run[i].pc, run[i].ci)]
                    = AttemptsOnFailure(StepKey(run[i].pc, run[i].ci))

\* a run that ended errored after its download failed four times
C4Witness ==
    \E i \in Instances :
        /\ run[i].state = "errored"
        /\ run[i].pc = "download-audio"
        /\ obs[i].inv[StepKey("download-audio", 0)] = 4

\* C5: resetEpisode, with no run of the episode alive while it executes,
\* returns with the episode's segments and analysis deleted, status pending
\* and instance id and error message cleared.
C5Reset ==
    [][(resetPc = "episode" /\ resetPc' = "idle" /\ resetAlone)
          => /\ segments'[resetTarget] = <<>>
             /\ analyses'[resetTarget] = 0
             /\ status'[resetTarget] = "pending"
             /\ workflowId'[resetTarget] = Null
             /\ errorMessage'[resetTarget] = "null"]_vars

\* a completed episode after its reset
C5Witness ==
    \E i \in Instances :
        /\ run[i].state = "complete"
        /\ resetPc = "idle" /\ resetAlone /\ resetTarget = run[i].ep
        /\ budget.admin < CtlAdminCalls
        /\ status[run[i].ep] = "pending"
        /\ workflowId[run[i].ep] = Null
        /\ segments[run[i].ep] = <<>>
        /\ analyses[run[i].ep] = 0

\* C6: every iteration of cancelAllJobs sets its episode to pending with
\* instance id and error message cleared and counts it, whether the abort
\* succeeded, threw or was skipped, and the call returns the number of
\* episodes it found in progress.
C6Cancel ==
    [][/\ \A episode \in cancelTodo \ cancelTodo' :
             /\ status'[episode.id] = "pending"
             /\ workflowId'[episode.id] = Null
             /\ errorMessage'[episode.id] = "null"
             /\ cancelledCount' = cancelledCount + 1
       /\ (cancelPc = "loop" /\ cancelPc' = "idle")
             => /\ cancelResult' = Cardinality(cancelFound)
                /\ cancelTodo = {}]_vars

\* cancelAllJobs returned 2 after an abort that threw on a running instance
C6Witness ==
    /\ cancelPc = "idle" /\ cancelResult = 2
    /\ budget.faults < CtlFaults
    /\ \E i \in Instances : run[i].state = "running"
    /\ \A e \in Episodes : status[e] = "pending" /\ workflowId[e] = Null

\* C7: no fetch of the source URL is issued while the episode's blob
\* already exists at its key.
C7NoRefetch == \A i \in Instances : obs[i].fetchHad = 0

\* C8: a run has at most one chunk transcription in flight, and the call
\* for a chunk starts only when none is in flight and every chunk of lower
\* index has its result recorded.
C8Sequential ==
    [][\A i \in Instances :
          /\ Cardinality(run'[i].stt) <= 1
          /\ \A c \in run'[i].stt \ run[i].stt :
                /\ run[i].stt = {}
                /\ \A k \in ChunkIdx :
                      k < c => StepKey("transcribe-chunk", k) \in run[i].log]_vars

\* the second chunk in flight after the first was recorded
C8Witness ==
    \E i \in Instances :
        /\ run[i].stt = {1}
        /\ StepKey("transcribe-chunk", 0) \in run[i].log

\* C9: the planned chunks number ceil(S / C), each holds between 1 and C
\* bytes, the first starts at 0, each starts where its predecessor ends and
\* the last ends at S.
C9Plan ==
    planPc = "done" =>
        /\ Len(planChunks) = (planSize + CHUNK_SIZE - 1) \div CHUNK_SIZE
        /\ \A k \in 1..Len(planChunks) :
              /\ planChunks[k].end - planChunks[k].start <= CHUNK_SIZE
              /\ planChunks[k].end - planChunks[k].start >= 1
              /\ planChunks[k].start =
                    IF k = 1 THEN 0 ELSE planChunks[k - 1].end
        /\ Len(planChunks) > 0 => planChunks[Len(planChunks)].end = planSize
        /\ planSize = 0 => planChunks = <<>>

\* a plan whose last chunk is partial
C9Witness ==
    /\ planPc = "done"
    /\ Len(planChunks) = 3
    /\ planSize % CHUNK_SIZE # 0

\* C10: a run never holds more than one chunk's bytes of audio.
C10Memory == \A i \in Instances : MemHeld(i) <= CHUNK_SIZE

\* the durations of the first k chunks, added up
RECURSIVE SumDurations(_)
SumDurations(k) ==
    IF k = 0 THEN 0 ELSE SumDurations(k - 1) + transcriptions[k].duration

\* C11: every word of chunk k in the merged list carries its raw start and
\* end plus the sum of the durations of the chunks before k, so (raw
\* timestamps being non-negative) it does not start before that sum.
C11Offsets ==
    \A k \in 1..Len(transcriptions) :
        /\ Len(transcriptions[k].words) = Len(whisper[k].words)
        /\ \A j \in 1..Len(transcriptions[k].words) :
              LET w == transcriptions[k].words[j]
                  raw == whisper[k].words[j]
              IN /\ w.start = raw.start + SumDurations(k - 1)
                 /\ w.end = raw.end + SumDurations(k - 1)
                 /\ w.start >= SumDurations(k - 1)

\* durations [10, 12, 8], raw starts 0: the chunks' words start at 0, 10, 22
C11Witness ==
    /\ mergePc = "done"
    /\ Len(transcriptions) = 3
    /\ [k \in 1..3 |-> transcriptions[k].duration] = <<10, 12, 8>>
    /\ \A k \in 1..3 : Len(whisper[k].words) > 0
                       /\ whisper[k].words[1].start = 0
    /\ [k \in 1..3 |-> transcriptions[k].words[1].start] = <<0, 10, 22>>

\* the word lists of the segments, one after the other
RECURSIVE Flatten(_)
Flatten(segs) ==
    IF segs = <<>> THEN <<>> ELSE Head(segs) \o Flatten(Tail(segs))

\* C12: the word lists of the returned segments, concatenated in output
\* order, are the input word list: nothing dropped, duplicated or
\* reordered; the empty input gives no segment.
C12Partition ==
    segPc = "done" =>
        /\ Flatten(segOut) = segWords
        /\ (segWords = <<>> => segOut = <<>>)

C12Witness ==
    /\ segPc = "done"
    /\ Len(segOut) >= 3
    /\ Len(segOut[1]) # Len(segOut[2])
    /\ Flatten(segOut) = segWords

\* word p of a segment is one at which the Segmenter closes
ClosesAt(seg, p, target) ==
    (seg[p].punct /\ p >= MinSentenceWords) \/ p >= target

\* C13: a segment is closed exactly at the first word at which the buffer
\* holds at least 5 words and the word ends a sentence, or the buffer holds
\* targetWordsPerSegment words, or the input ends: every segment has 1 to
\* targetWordsPerSegment words, none holds an earlier closing word, every
\* segment but the last ends on a closing word, and a single word is one
\* segment.
C13CloseRule ==
    segPc = "done" =>
        /\ \A s \in 1..Len(segOut) :
              /\ Len(segOut[s]) >= 1
              /\ Len(segOut[s]) <= segTarget
              /\ \A p \in 1..(Len(segOut[s]) - 1) :
                    ~ClosesAt(segOut[s], p, segTarget)
              /\ s < Len(segOut) =>
                    \/ Len(segOut[s]) = segTarget
                    \/ /\ Len(segOut[s]) >= MinSentenceWords
                       /\ segOut[s][Len(segOut[s])].punct
        /\ Len(segWords) = 1 => segOut = <<segWords>>

\* one call that closes a segment for each of the three reasons
C13Witness ==
    /\ segPc = "done"
    /\ Len(segOut) = 3
    /\ Len(segOut[1]) = MinSentenceWords /\ segOut[1][MinSentenceWords].punct
    /\ MinSentenceWords < segTarget
    /\ Len(segOut[2]) = segTarget /\ ~segOut[2][segTarget].punct
    /\ Len(segOut[3]) = 1

\* the cache window the documentation states: 24 hours
CacheSeconds == 24 * 60 * 60

\* a WeeklyAnalysis created within the 24 hours before t is stored
FreshAt(t) ==
    \E k \in 1..Len(weeklyRows) : weeklyRows[k].createdAt >= t - CacheSeconds

\* C14: a call without forceRefresh that finds a WeeklyAnalysis created
\* within the last 24 hours returns it and goes no further: it neither
\* calls the text-generation service nor stores a record.
C14Cache ==
    (weeklyPc \in {"ai", "insert"} /\ ~weeklyForce) => ~FreshAt(weeklyEnd)

\* C15: a call whose query finds no completed episode with an analysis
\* published in [now - 7d, now] fails with the nothing-to-analyze error and
\* leaves the text-generation service, table weekly_analyses and every
\* episode's status alone; the service is called and a row is stored only
\* by a call whose query found episodes.
C15Nothing ==
    [][/\ (/\ weeklyPc = "idle"
           /\ budget'.admin < budget.admin
           /\ RecentAnalyses(now - WeekSeconds, now) = {})
          => /\ weeklyResult'.kind = "nothing"
             /\ weeklyPc' = "idle"
             /\ weeklyAiCalls' = weeklyAiCalls
             /\ weeklyRows' = weeklyRows
             /\ status' = status
       /\ (weeklyAiCalls' # weeklyAiCalls \/ weeklyRows' # weeklyRows)
          => weeklyRecent # {}]_vars

\* the call failed although a completed, analysed episode is stored: it was
\* published outside the window
C15Witness ==
    /\ weeklyResult.kind = "nothing"
    /\ weeklyPc = "idle"
    /\ \E e \in Episodes : status[e] = "complete" /\ analyses[e] > 0
    /\ weeklyAiCalls = 0
    /\ weeklyRows = <<>>

\* the place of a status in the lifecycle pending, downloading,
\* transcribing, analyzing, complete | error
StatusRank(s) ==
    CASE s = "pending" -> 0
      [] s = "downloading" -> 1
      [] s = "transcribing" -> 2
      [] s = "analyzing" -> 3
      [] s \in {"complete", "error"} -> 4

\* the step is the row update of cancelAllJobs or of resetEpisode
ByCancelOrReset ==
    cancelledCount' # cancelledCount \/ (resetPc = "episode" /\ resetPc' = "idle")

\* C16: a write that changes an episode's status moves it forward in the
\* lifecycle, unless it is the cancel or reset write, which sets pending; no
\* trigger and no pipeline step moves a status backwards.
C16Monotonic ==
    [][\A e \in Episodes :
          status'[e] # status[e] =>
              \/ StatusRank(status'[e]) > StatusRank(status[e])
              \/ (ByCancelOrReset /\ status'[e] = "pending")]_vars

\* C17: every episode has at most one row in episode_analyses, whatever
\* runs, triggers, cancels and resets interleave.
C17OneAnalysis == \A e \in Episodes : analyses[e] <= 1

\* a second run over an episode that has its analysis reached
\* 'store-analysis' and its insert was refused
C17Witness ==
    \E i \in Instances :
        /\ run[i].state = "errored"
        /\ run[i].pc = "store-analysis"
        /\ analyses[run[i].ep] = 1
        /\ \E j \in Instances \ {i} : run[j].ep = run[i].ep
                                       /\ run[j].state = "complete"

\* the rows one execution of 'store-transcript' writes for episode e when
\* every chunk gave word tokens
WrittenOnce(e) ==
    SegmentIndexes([c \in ChunkIdx |-> "words"], NumChunks(e))

\* C18: executing 'store-transcript' or 'store-analysis' again for an
\* episode leaves what one execution leaves: the episode's segments are
\* those written once, and no execution of 'store-analysis' fails on the
\* row that is already there.
C18Idempotent ==
    /\ \A e \in Episodes : segments[e] \in {<<>>, WrittenOnce(e)}
    /\ \A i \in Instances :
          ~(run[i].state = "errored" /\ run[i].pc = "store-analysis")

\* every chunk of run i is transcribed and none gave word tokens or text
EmptyTranscript(i) ==
    /\ run[i].n > 0
    /\ \A c \in 0..(run[i].n - 1) :
          /\ StepKey("transcribe-chunk", c) \in run[i].log
          /\ run[i].res[c] = "empty"

\* C19: a run whose speech-to-text results hold no word token and no text
\* goes no further than 'store-transcript': it starts no analysis and its
\* episode is never complete.
C19EmptyFails ==
    \A i \in Instances :
        EmptyTranscript(i) =>
            /\ run[i].pc \in {"transcribe-chunk", "store-transcript"}
            /\ run[i].state # "complete"
            /\ status[run[i].ep] # "complete"

\* a response is one that JSON.parse cannot read: wrapped in a fence the
\* function does not strip, or no JSON inside
Unparseable(response) ==
    \/ response.fence \in {"other", "trailing"}
    \/ response.body \in {"garbage", "empty"}

\* the record stored for a response that did not parse
DegradedRecord == [summary |-> "head", tags |-> "empty", themes |-> "empty",
                   sentiment |-> "unknown", keyQuotes |-> "empty"]

\* C20: whatever text the text-generation call returns, 'analyze-transcript'
\* succeeds on it and makes no further call; a response that does not parse
\* gives the degraded record (leading characters as summary, empty lists,
\* sentiment "unknown"), and the run does not end in error.
C20Analyze ==
    \A i \in Instances :
        /\ obs[i].aiOk <= 1
        /\ obs[i].aiOk = 1 =>
              /\ StepKey("analyze-transcript", 0) \in run[i].log
              /\ run[i].analysis # NoAnalysis
              /\ run[i].state # "errored"
              /\ Unparseable(obs[i].response) =>
                    run[i].analysis = DegradedRecord

\* a run that got fenced text with no JSON in it went on to complete its
\* episode with the degraded record
C20Witness ==
    \E i \in Instances :
        /\ obs[i].response = [fence |-> "json", body |-> "garbage"]
        /\ run[i].analysis = DegradedRecord
        /\ run[i].state = "complete"
        /\ status[run[i].ep] = "complete"
        /\ analyses[run[i].ep] = 1

\* ------------------------------------------------------------------------
\* C21: cancelAllJobs changes only the status, the instance id and the error
\* message of the episodes its query found in progress: every step of the
\* handler leaves all segments, analyses, audio objects, chunk objects and
\* stored keys as they are, and leaves the row of every episode the query
\* did not find (pending, complete or error) as it is.
\* ------------------------------------------------------------------------
CancelStep == cancelPc' # cancelPc \/ cancelTodo' # cancelTodo

C21CancelFrame ==
    [][CancelStep =>
        /\ segments' = segments /\ analyses' = analyses
        /\ audio' = audio /\ chunkObjs' = chunkObjs /\ r2Key' = r2Key
        /\ \A e \in Episodes :
             e \notin (cancelFound \cup cancelFound') =>
               /\ status'[e] = status[e]
               /\ workflowId'[e] = workflowId[e]
               /\ errorMessage'[e] = errorMessage[e]]_vars

\* a call has reset one episode whose segments are still stored, next to
\* a complete episode it has left alone
C21Witness ==
    /\ cancelPc = "idle" /\ cancelResult = 1
    /\ \E e \in Episodes : status[e] = "complete" /\ analyses[e] = 1
    /\ \E e \in Episodes : status[e] = "pending" /\ segments[e] # <<>>

\* ------------------------------------------------------------------------
\* C22: when cancelAllJobs has reset the row of an episode whose recorded
\* instance was running and abort() did not throw, that instance is
\* terminated; a terminated instance never runs again, records no step,
\* enters no step and invokes no step action: it changes only while the
\* one step that was in flight finishes, and that step's write can land
\* after the reset.
\* ------------------------------------------------------------------------
C22Aborted ==
    [][/\ \A ep \in cancelTodo \ cancelTodo' :
            (ep.workflowId # Null /\ budget' = budget)
              => run'[ep.workflowId].state # "running"
       /\ \A i \in Instances :
            run[i].state = "terminated" =>
              /\ run'[i].state = "terminated"
              /\ run'[i].log = run[i].log
              /\ run'[i].pc = run[i].pc /\ run'[i].ci = run[i].ci
              /\ obs'[i].inv = obs[i].inv
              /\ run[i].phase = "idle" => run'[i] = run[i]]_vars

\* the put of a terminated instance's download step has landed on the row
\* that the cancel had reset
C22Witness ==
    \E i \in Instances :
        /\ run[i].state = "terminated" /\ run[i].phase = "idle"
        /\ run[i].pc = "download-audio"
        /\ obs[i].putOk = 1
        /\ r2Key[EpisodeOf(i)] /\ status[EpisodeOf(i)] = "pending"
        /\ cancelPc = "idle" /\ cancelResult >= 1

\* ------------------------------------------------------------------------
\* C23: runs over distinct episodes do not interfere. A step of an instance
\* changes no row, segment, analysis, audio object or chunk object of an
\* episode other than its own; and when two instances over distinct
\* episodes have both completed with no cancel and no reset, each episode
\* holds what a run of it alone leaves.
\* ------------------------------------------------------------------------
RecordOf(e) ==
    [status |-> status[e], workflowId |-> workflowId[e],
     errorMessage |-> errorMessage[e], r2Key |-> r2Key[e],
     segments |-> segments[e], analyses |-> analyses[e],
     audio |-> audio[e], chunkObjs |-> chunkObjs[e]]

\* the records a completed run i leaves when nothing else runs: the status
\* is 'downloading' when processEpisode's row update came after the run
AloneFinal(i) ==
    {[status |-> s, workflowId |-> i, errorMessage |-> "null",
      r2Key |-> TRUE, segments |-> WrittenOnce(EpisodeOf(i)),
      analyses |-> 1, audio |-> TRUE, chunkObjs |-> {}] :
        s \in {"complete", "downloading"}}

BothComplete ==
    /\ nInst = 2 /\ trig = {}
    /\ run[1].ep # run[2].ep
    /\ run[1].state = "complete" /\ run[2].state = "complete"
    /\ budget.admin = CtlAdminCalls

C23NoInterference ==
    [][/\ \A i \in Instances :
            run'[i] # run[i] =>
              \A e \in Episodes \ {run'[i].ep} : RecordOf(e)' = RecordOf(e)
       /\ BothComplete' =>
            \A i \in Instances : RecordOf(EpisodeOf(i))' \in AloneFinal(i)]_vars

\* two runs over distinct episodes have both completed, each after
\* fetching and storing the audio of its own episode
C23Witness ==
    /\ BothComplete
    /\ obs[1].fetchHad = 0 /\ obs[2].fetchHad = 0
    /\ status["e1"] = "complete" /\ status["e2"] = "complete"
    /\ segments["e1"] # <<>> /\ segments["e2"] # <<>>

\* ------------------------------------------------------------------------
\* C24: the steps of one run execute strictly in program order: a step is
\* attempted and recorded only when every step before it is recorded, and
\* the run writes the statuses downloading, transcribing, analyzing,
\* complete in that order, each by its own step and none skipped.
\* ------------------------------------------------------------------------
StepIndex(pc) == CHOOSE j \in 1..Len(StepNames) : StepNames[j] = pc

\* the step keys of a run over episode e
KeysOf(e) ==
    {StepKey(StepNames[j], 0) : j \in 1..Len(StepNames)}
    \cup {StepKey("transcribe-chunk", c) : c \in 0..(NumChunks(e) - 1)}

\* the keys that come before key k in the program order of run()
KeysBefore(k, e) ==
    {q \in KeysOf(e) :
        \/ StepIndex(q[1]) < StepIndex(k[1])
        \/ q[1] = k[1] /\ q[2] < k[2]}

\* the step whose action writes status s
WriterOf(s) ==
    CASE s = "downloading" -> "download-audio"
      [] s = "transcribing" -> "update-status-transcribing"
      [] s = "analyzing" -> "update-status-analyzing"
      [] s = "complete" -> "store-analysis"

C24StepOrder ==
    [][\A i \in Instances :
         LET e == run'[i].ep IN
         /\ run'[i].log \subseteq KeysOf(e)
         /\ \A k \in run'[i].log : KeysBefore(k, e) \subseteq run'[i].log
         /\ run'[i].phase # "idle" =>
              KeysBefore(StepKey(run'[i].pc, run'[i].ci), e)
                 \subseteq run'[i].log
         /\ (run'[i] # run[i] /\ status'[e] # status[e]) =>
              /\ status'[e] \in {"downloading", "transcribing", "analyzing",
                                 "complete"}
              /\ run[i].pc = WriterOf(status'[e])
              /\ KeysBefore(StepKey(run[i].pc, 0), e) \subseteq run[i].log
              /\ status'[e] # "downloading" =>
                   run'[i].log = run[i].log \cup {StepKey(run[i].pc, 0)}]_vars

\* a run has written all four statuses and recorded every step
C24Witness ==
    \E i \in Instances :
        /\ run[i].state = "complete"
        /\ run[i].log = KeysOf(EpisodeOf(i))
        /\ NumChunks(EpisodeOf(i)) = 2
        /\ status[EpisodeOf(i)] = "complete"

\* ------------------------------------------------------------------------
\* C25: a call of generateWeeklyAnalysis that stores a record built it from
\* exactly the episodes that are complete, published in [now - 7d, now] and
\* have an analysis; it called the text-generation service exactly once,
\* stores exactly one new record holding exactly that id set and returns
\* the size of the set as its episode count.
\* ------------------------------------------------------------------------
InWindow(e, t) ==
    /\ status[e] = "complete"
    /\ analyses[e] >= 1
    /\ publishedAt[e] >= t - WeekSeconds
    /\ publishedAt[e] <= t

C25Weekly ==
    [][/\ weeklyRows' # weeklyRows =>
            /\ Len(weeklyRows') = Len(weeklyRows) + 1
            /\ SubSeq(weeklyRows', 1, Len(weeklyRows)) = weeklyRows
            /\ LET row == weeklyRows'[Len(weeklyRows')]
               IN /\ row.episodeIds = {e \in Episodes : InWindow(e, weeklyEnd)}
                  /\ row.weekEnd = weeklyEnd
                  /\ weeklyResult'.kind = "ok"
                  /\ weeklyResult'.id = row.id
                  /\ weeklyResult'.episodeCount = Cardinality(row.episodeIds)
       /\ weeklyAiCalls' =
            Len(weeklyRows') + (WeeklyFaults - budget'.faults)
              + (IF weeklyPc' = "insert" THEN 1 ELSE 0)]_vars

\* a record over one episode is stored; an analysed episode published
\* inside the window is left out of it because it is not complete
C25Witness ==
    /\ weeklyResult.kind = "ok" /\ weeklyResult.episodeCount = 1
    /\ Len(weeklyRows) = 1 /\ weeklyAiCalls = 1
    /\ \E e \in Episodes :
          /\ e \notin weeklyRows[1].episodeIds
          /\ analyses[e] = 1
          /\ publishedAt[e] >= weeklyRows[1].weekStart
          /\ publishedAt[e] <= weeklyRows[1].weekEnd

\* ------------------------------------------------------------------------
\* C29: on the fallback path (no chunk gave word tokens) chunk k with n > 0
\* sentences yields n segments, the segments follow chunk order, and
\* sentence j of chunk k covers [T_k + (j - 1) d_k / n, T_k + j d_k / n),
\* with d_k the duration of chunk k and T_k the sum of the durations of all
\* chunks before k.
\* ------------------------------------------------------------------------
FallbackPath ==
    \A k \in 1..Len(transcriptions) : transcriptions[k].words = <<>>

SegsOfChunk(k) == SelectSeq(storeSegs, LAMBDA s : s.chunk = k)

C29Fallback ==
    (mergePc = "stored" /\ FallbackPath) =>
        /\ \A a, b \in 1..Len(storeSegs) :
              a < b => storeSegs[a].chunk <= storeSegs[b].chunk
        /\ \A k \in 1..Len(transcriptions) :
              LET t == transcriptions[k]
                  segs == SegsOfChunk(k)
                  T == SumDurations(k - 1)
              IN /\ Len(segs) = t.text
                 /\ \A j \in 1..Len(segs) :
                       /\ segs[j].startTime * t.text =
                             T * t.text + (j - 1) * t.duration
                       /\ segs[j].endTime * t.text =
                             T * t.text + j * t.duration

\* ------------------------------------------------------------------------
\* C30: every segment 'store-transcript' inserts ends after it starts, on
\* the word path and on the sentence fallback path.
\* ------------------------------------------------------------------------
C30EndAfterStart ==
    mergePc = "stored" =>
        \A j \in 1..Len(storeSegs) :
            storeSegs[j].endTime > storeSegs[j].startTime

\* the guids stored when the call in progress (or just ended) arrived
StoredBefore ==
    guids \ {importCreated[j].guid : j \in 1..Len(importCreated)}

\* the feed items published before the podcast was added and not stored
\* when the call arrived, most recent first
Eligible ==
    SelectSeq(SortByDateDesc(feed),
              LAMBDA item : /\ item.publishedAt < AddedAt
                            /\ item.guid \notin StoredBefore)

\* ------------------------------------------------------------------------
\* C26: a call of importPastEpisodes creates the (at most 5) most recent
\* feed items that were published before the podcast was added and are not
\* stored yet, each with status pending, and starts no pipeline instance.
\* ------------------------------------------------------------------------
C26Import ==
    importPc = "done" =>
        /\ Len(importCreated) <= ImportLimit
        /\ importedCount = Len(importCreated)
        /\ {importCreated[j].guid : j \in 1..Len(importCreated)} =
              {Eligible[j].guid :
                  j \in 1..Min(ImportLimit, Len(Eligible))}
        /\ \A j \in 1..Len(importCreated) :
              importCreated[j].status = "pending"
        /\ nInst = 0

\* ------------------------------------------------------------------------
\* C27: when removePodcast has returned, no episode row, segment or
\* analysis of the podcast is stored and no audio object of its episodes
\* (blob or chunk) is left in the bucket.
\* ------------------------------------------------------------------------
C27Removed ==
    removePc = "done" =>
        /\ rows = {}
        /\ \A e \in Episodes :
              /\ segments[e] = <<>>
              /\ analyses[e] = 0
              /\ ~audio[e]
              /\ chunkObjs[e] = {}

\* ------------------------------------------------------------------------
\* C28: in demo mode no POST server function takes effect: no pipeline
\* instance is created, no row or object changes and removePodcast does not
\* get past its guard.
\* ------------------------------------------------------------------------
C28Demo ==
    isDemo =>
        /\ nInst = 0
        /\ removePc = "idle"
        /\ rows = Episodes
        /\ \A e \in Episodes :
              /\ status[e] = "pending" /\ workflowId[e] = Null
              /\ segments[e] = <<>> /\ analyses[e] = 0
              /\ ~audio[e] /\ chunkObjs[e] = {}

C32Parse ==
    parsePc = "returned" =>
        LET open == MatchStart(weeklyResponse)
            inside == IF open = 0 THEN <<>>
                      ELSE SubSeq(weeklyResponse, open + 1,
                                  MatchEnd(weeklyResponse) - 1)
        IN IF open = 0
           THEN /\ weeklyParsed.trendingTopics = "empty"
                /\ weeklyParsed.analysis = weeklyResponse
           ELSE /\ weeklyParsed.trendingTopics \in {"arr", "empty"}
                /\ weeklyParsed.trendingTopics = "arr"
                       <=> JsonParse(inside) = "arr"
                /\ weeklyParsed.analysis = SubSeq(weeklyResponse, 1, open - 1)

\* C33: with one trigger, no cancel and no reset, an episode whose run has
\* succeeded has status complete and keeps it: no later write, the
\* trigger's own included, replaces the status the run wrote last.
C33KeepsComplete ==
    [][\A i \in 1..nInst :
          (run[i].state = "complete" /\ status[EpisodeOf(i)] = "complete")
              => status'[EpisodeOf(i)] = "complete"]_vars

\* C34: in every reachable state an episode whose status is downloading,
\* transcribing or analyzing has a recorded instance id.
C34HasInstanceId ==
    \A e \in Episodes :
        status[e] \in InProgressStatuses => workflowId[e] # Null

\* C35: in every reachable state an episode with status complete has a row
\* in episode_analyses, whatever resets and cancels interleave with the run.
C35CompleteHasAnalysis ==
    \A e \in Episodes : status[e] = "complete" => analyses[e] >= 1

\* C36: in every reachable state the segment indexes of an episode are
\* distinct and are the numbers 0..n-1, n being the number of its segments.
C36DistinctIndexes ==
    \A e \in Episodes :
        /\ \A j, k \in 1..Len(segments[e]) :
              j # k => segments[e][j] # segments[e][k]
        /\ {segments[e][k] : k \in 1..Len(segments[e])}
               = 0..(Len(segments[e]) - 1)

\* resetEpisode has returned for the episode of run i, the run is still
\* running and its trigger has recorded the instance id
ResetReturned(i) ==
    /\ budget.admin = 0 /\ resetPc = "idle"
    /\ resetTarget = EpisodeOf(i)
    /\ run[i].state = "running"
    /\ i \notin trig

\* C37: once resetEpisode has returned for an episode that still has a
\* running instance, no step adds a segment or an analysis to the episode
\* and its status stays pending (no new trigger occurs: there is one).
C37ResetStops ==
    [][\A i \in 1..nInst :
          ResetReturned(i) =>
              /\ Len(segments'[EpisodeOf(i)]) <= Len(segments[EpisodeOf(i)])
              /\ analyses'[EpisodeOf(i)] <= analyses[EpisodeOf(i)]
              /\ status'[EpisodeOf(i)] = "pending"]_vars

\* C39: whenever a run has ended, by success, by a failure after its
\* retries or by an abort, no chunk object of its episode remains in the
\* bucket; after a success the episode's full audio object is still there.
C39NoChunksLeft ==
    \A i \in 1..nInst :
        run[i].state \in {"complete", "errored", "terminated"} =>
            /\ chunkObjs[EpisodeOf(i)] = {}
            /\ run[i].state = "complete" => audio[EpisodeOf(i)]

\* ------------------------------------------------------------------------
\* C40: every chunk whose result has text is represented by a stored
\* segment.  On the word path a segment is made of word tokens only, so a
\* chunk is represented there when it gave word tokens; on the sentence
\* path it is represented by the segments made of its sentences.
\* ------------------------------------------------------------------------
Represented(k) ==
    IF FlatWords(transcriptions) # <<>>
    THEN /\ transcriptions[k].words # <<>>
         /\ storeSegs # <<>>
    ELSE SegsOfChunk(k) # <<>>

C40TextRepresented ==
    mergePc = "stored" =>
        \A k \in 1..Len(transcriptions) :
            transcriptions[k].text > 0 => Represented(k)

\* C38: for every feed-item guid of the podcast there is at most one episode
\* row and at most one pipeline instance is created for it, also when two
\* polls run at the same time.
C38OnePerGuid ==
    \A g \in 1..MaxPollItems :
        /\ Cardinality(ExistingRows(g)) <= 1
        /\ Cardinality({k \in 1..Len(pollInsts) : pollInsts[k].guid = g}) <= 1

====
